---- MODULE Spec2Model ----
(***************************************************************************)
(* crisphooks: named hooks with priorities, promise-returning or plain     *)
(* handlers, and paired error-cleanup handlers run in reverse order.       *)
(*                                                                         *)
(* The registry (_hooks) and the two execution engines (_trigger, which    *)
(* returns a promise, and _triggerSync) are translated from                *)
(* src/crisphooks.js.  One action is one call of one function of the       *)
(* source; a call made in tail position is recorded in the field pc of     *)
(* the running operation, with its argument in the field error.            *)
(*                                                                         *)
(* A handler is identified by the hookNumber of its entry and returns that *)
(* number as its result.  What a handler does when it is invoked (return a *)
(* plain value, throw, return a promise that later resolves or rejects) is *)
(* chosen when it is invoked.                                              *)
(***************************************************************************)
EXTENDS Integers, Sequences, FiniteSets, TLC

\* Bounds of the model.
MaxHooks == 3
MaxPriority == 1
MaxRepeatedCalls == 0
MaxLiveHooks == 2
MaxConcurrentHooks == 2
MaxDeferredHooks == 2
MaxOtherHooks == 1
MaxCallbackHooks == 2
MaxAsyncHooks == 2
MaxV1Hooks == 3
MaxV1SyncHooks == 2
MaxWrapCallHooks == 2
MaxSortedHooks == 3
MaxFrameHooks == 3

Names == {"pre-X", "X", "post-X"}
Priorities == 0..MaxPriority

\* The priority of a hook registered without one.
DefaultPriority == 0

\* JavaScript values that occur as errors.  "undefined" and "0" are falsy.
Undefined == "undefined"
FalsyValues == {"undefined", "null", "0"}
FailValues == {"0", "E1"}
CleanupFailValues == {"0", "E2"}
SuppliedErrors == {"0", "E3"}
HookError == "Error: Error running hook"
NewError == "Error"
TypeError == "TypeError"

Truthy(v) == v \notin FalsyValues

\* a || b
OrElse(a, b) == IF Truthy(a) THEN a ELSE b

OpIds == {"t1", "t2"}

\* Receivers of handlers: the hook container (this), an object the caller
\* passes as thisPtr, and the registry entry whose handler is called.
Container == "this"
CallerObject == "thisPtr"
HookEntry == "hook"

\* The callback a hook registered with hookAsync is given as first argument.
NextCallback == "next"

\* typeof v for the values a caller can pass first
TypeOf(v) == IF v \in {Container, CallerObject} THEN "object" ELSE "string"

\* The arguments a caller passes after the name, for the hooks.
HookArguments == {<<>>, <<"a1", "a2">>}

VARIABLES _hooks, ops, wrap

vars == <<_hooks, ops, wrap>>

-----------------------------------------------------------------------------
\* Registry

EmptyNameHooks == [hooks |-> <<>>, sorted |-> TRUE, hookCtr |-> 0]

RECURSIVE SumLen(_, _)
SumLen(h, S) ==
    IF S = {} THEN 0
    ELSE LET n == CHOOSE x \in S : TRUE
         IN Len(h[n].hooks) + SumLen(h, S \ {n})

TotalHooks == SumLen(_hooks, DOMAIN _hooks)

\* _addHook: the entry is pushed with the counter's value, the counter is
\* incremented, and the set is marked unsorted once it has two entries.
AddHookToSameNumber(h, name, priority, errorHandler) ==
    LET nameHooks == IF name \in DOMAIN h THEN h[name] ELSE EmptyNameHooks
        pushed == Append(nameHooks.hooks,
                         [priority |-> priority,
                          hookNumber |-> nameHooks.hookCtr,
                          errorHandler |-> errorHandler,
                          wrapped |-> FALSE])
        updated == [hooks |-> pushed,
                    sorted |-> IF Len(pushed) > 1 THEN FALSE ELSE nameHooks.sorted,
                    hookCtr |-> IF nameHooks.hookCtr = 0 THEN 1 ELSE nameHooks.hookCtr]
    IN [n \in (DOMAIN h) \cup {name} |-> IF n = name THEN updated ELSE h[n]]

AddHookToKeepingFlag(h, name, priority, errorHandler) ==
    LET nameHooks == IF name \in DOMAIN h THEN h[name] ELSE EmptyNameHooks
        pushed == Append(nameHooks.hooks,
                         [priority |-> priority,
                          hookNumber |-> nameHooks.hookCtr,
                          errorHandler |-> errorHandler,
                          wrapped |-> FALSE])
        updated == [hooks |-> pushed,
                    sorted |-> nameHooks.sorted,
                    hookCtr |-> nameHooks.hookCtr + 1]
    IN [n \in (DOMAIN h) \cup {name} |-> IF n = name THEN updated ELSE h[n]]

AddHookTo(h, name, priority, errorHandler) ==
    LET nameHooks == IF name \in DOMAIN h THEN h[name] ELSE EmptyNameHooks
        pushed == Append(nameHooks.hooks,
                         [priority |-> priority,
                          hookNumber |-> nameHooks.hookCtr,
                          errorHandler |-> errorHandler,
                          wrapped |-> FALSE])
        updated == [hooks |-> pushed,
                    sorted |-> IF Len(pushed) > 1 THEN FALSE ELSE nameHooks.sorted,
                    hookCtr |-> nameHooks.hookCtr + 1]
    IN [n \in (DOMAIN h) \cup {name} |-> IF n = name THEN updated ELSE h[n]]

\* The comparator handed to Array.prototype.sort.
CompareHooksDescending(a, b) ==
    IF a.priority > b.priority THEN -1
    ELSE IF b.priority > a.priority THEN 1
    ELSE a.hookNumber - b.hookNumber

CompareHooks(a, b) ==
    IF a.priority > b.priority THEN 1
    ELSE IF b.priority > a.priority THEN -1
    ELSE a.hookNumber - b.hookNumber

RECURSIVE InsertHook(_, _)
InsertHook(sortedSeq, e) ==
    IF sortedSeq = <<>> THEN <<e>>
    ELSE IF CompareHooks(e, Head(sortedSeq)) < 0 THEN <<e>> \o sortedSeq
    ELSE <<Head(sortedSeq)>> \o InsertHook(Tail(sortedSeq), e)

RECURSIVE SortArray(_)
SortArray(s) ==
    IF s = <<>> THEN <<>>
    ELSE InsertHook(SortArray(SubSeq(s, 1, Len(s) - 1)), s[Len(s)])

\* _sortHooks
SortHooksLosing(h, name) ==
    IF name \notin DOMAIN h \/ Len(h[name].hooks) <= 1 \/ h[name].sorted THEN h
    ELSE [h EXCEPT ![name] = [@ EXCEPT !.hooks = SortArray(Tail(@)), !.sorted = TRUE]]

SortHooksCreating(h, name) ==
    [n \in DOMAIN h \cup {name} |-> IF n \in DOMAIN h THEN h[n] ELSE EmptyNameHooks]

SortHooks(h, name) ==
    IF name \notin DOMAIN h \/ Len(h[name].hooks) <= 1 \/ h[name].sorted THEN h
    ELSE [h EXCEPT ![name] = [@ EXCEPT !.hooks = SortArray(@), !.sorted = TRUE]]

\* hookArray = nameHooks.hooks.slice(0)
Slice(hooksArray) == hooksArray

\* hookAsync: _addHook with the handler and the error handler each wrapped in
\* a function that returns a promise and hands them a callback.
HookAsyncTo(h, name, priority, errorHandler) ==
    LET added == AddHookTo(h, name, priority, errorHandler)
    IN [added EXCEPT ![name].hooks[Len(added[name].hooks)].wrapped = TRUE]

\* hook(name, priority, handler, errorHandler), for a name in names and a
\* priority in priorities
AddHook(names, priorities) ==
    /\ TotalHooks < MaxHooks
    /\ \E name \in names, priority \in priorities, errorHandler \in BOOLEAN :
          _hooks' = AddHookTo(_hooks, name, priority, errorHandler)
    /\ UNCHANGED <<ops, wrap>>

\* hookAsync(name, priority, handler, errorHandler)
HookAsync(names, priorities) ==
    /\ TotalHooks < MaxHooks
    /\ \E name \in names, priority \in priorities, errorHandler \in BOOLEAN :
          _hooks' = HookAsyncTo(_hooks, name, priority, errorHandler)
    /\ UNCHANGED <<ops, wrap>>

-----------------------------------------------------------------------------
\* One running operation

IdleOp ==
    [pc |-> "idle", api |-> "none", engine |-> "none", name |-> "X",
     hookArray |-> <<>>, curHookNum |-> 0, curHookResults |-> <<>>,
     supplied |-> Undefined, triggerWithError |-> Undefined,
     error |-> Undefined, value |-> Undefined,
     stack |-> <<>>, calls |-> <<>>, inflight |-> {}, fails |-> <<>>,
     uncaught |-> {}, unwindFailures |-> {},
     thisPtr |-> Container, args |-> <<>>, rejections |-> {},
     callbacks |-> <<>>, completions |-> <<>>]

Active(op) == op.pc \in {"runNextHook", "runNextErrorHook", "await"}

\* An operation may be started in a slot whose previous operation is over.
Free(op) == ~Active(op) /\ op.inflight = {}

\* A caller that uses trigger, triggerError and their synchronous variants
\* directly does so outside triggerWrap.
Standalone(o) == Free(ops[o]) /\ wrap.pc = "idle"

\* What an invoked handler or error-cleanup handler does.
HandlerOutcomes ==
    {[how |-> "plain", val |-> Undefined], [how |-> "promise", val |-> Undefined]}
        \cup {[how |-> "throw", val |-> v] : v \in FailValues}

ErrorHandlerOutcomes ==
    {[how |-> "plain", val |-> Undefined], [how |-> "promise", val |-> Undefined]}
        \cup {[how |-> "throw", val |-> v] : v \in CleanupFailValues}

\* The operations of the mixin (CrispHooksBase) API.
MixinApis ==
    {"mixin.trigger", "mixin.triggerSync", "mixin.triggerError", "mixin.triggerErrorSync"}

\* The receiver of hook.handler.apply(thisPtr, args) in the constructor API; in
\* the mixin API the call is hook.handler(...args), a method call on the entry.
ReceiverOf(op) == IF op.api \in MixinApis THEN HookEntry ELSE op.thisPtr

\* What the registered function is called with: the wrapper of hookAsync calls
\* it with [callback].concat(args).
HandlerArguments(hook, args) == IF hook.wrapped THEN <<NextCallback>> \o args ELSE args

\* What the function in the entry does as seen by the engine: the wrapper of
\* hookAsync returns a promise whatever the registered function does.
Seen(hook, out) == IF hook.wrapped THEN [how |-> "promise", val |-> Undefined] ELSE out

\* The array a run reads: the copy made when the operation started.
LiveHookArray(op, h) == h[op.name].hooks

HookArray(op, h) == op.hookArray

\* hookArray[curHookNum]
HookAt(op, h) == HookArray(op, h)[op.curHookNum + 1]

\* hookArray.length
HookCount(op, h) == Len(HookArray(op, h))

\* hookReturn.then(...) in runNextHook: nothing more happens until the promise
\* settles.
AwaitHandlerNoWait(op, p) ==
    [op EXCEPT !.inflight = @ \cup {p}, !.pc = "runNextHook", !.error = Undefined]

AwaitHandler(op, p) == [op EXCEPT !.inflight = @ \cup {p}, !.pc = "await"]

\* hookReturn.then(...) in runNextErrorHook
AwaitErrorHandlerNoWait(op, p) ==
    [op EXCEPT !.inflight = @ \cup {p}, !.pc = "runNextErrorHook"]

AwaitErrorHandler(op, p) == [op EXCEPT !.inflight = @ \cup {p}, !.pc = "await"]

\* runNextHook(error) with a truthy error: curHookNum -= 2
FailedCursor(curHookNum) == curHookNum - 2

\* _trigger and _triggerSync up to the first call of runNextHook or
\* runNextErrorHook; the registry is sorted in place before the copy.
StartOp(h, api, engine, name, triggerWithError) ==
    IF name \notin DOMAIN h
    THEN [IdleOp EXCEPT !.api = api, !.engine = engine, !.name = name,
                        !.triggerWithError = triggerWithError,
                        !.pc = IF engine = "async" THEN "resolved" ELSE "returned"]
    ELSE LET hookArray == Slice(SortHooks(h, name)[name].hooks)
         IN IF Truthy(triggerWithError)
            THEN [IdleOp EXCEPT !.api = api, !.engine = engine, !.name = name,
                                !.triggerWithError = triggerWithError,
                                !.hookArray = hookArray,
                                !.curHookNum = Len(hookArray) - 1,
                                !.error = triggerWithError,
                                !.pc = "runNextErrorHook"]
            ELSE [IdleOp EXCEPT !.api = api, !.engine = engine, !.name = name,
                                !.triggerWithError = triggerWithError,
                                !.hookArray = hookArray,
                                !.pc = "runNextHook"]

\* The handler's promise resolved or rejected (the callbacks given to then).
HandlerResolvedDropped(op, p) == [op EXCEPT !.inflight = @ \ {p}]

HandlerResolvedUnrecorded(op, p) ==
    [op EXCEPT !.inflight = @ \ {p}, !.pc = "runNextHook", !.error = Undefined]

HandlerResolved(op, p) ==
    [op EXCEPT !.curHookResults = Append(@, p[3]),
               !.inflight = @ \ {p},
               !.pc = "runNextHook", !.error = Undefined]

HandlerRejected(op, p, v) ==
    [op EXCEPT !.fails = Append(@, [idx |-> p[2], val |-> v, how |-> "reject"]),
               !.inflight = @ \ {p},
               !.pc = "runNextHook", !.error = OrElse(v, HookError)]

\* catchPromiseError: the error is thrown from a setImmediate callback; the
\* promise of the operation stays pending.
CatchPromiseErrorRejecting(op, ex) ==
    [op EXCEPT !.uncaught = @ \cup {ex}, !.pc = "rejected", !.value = ex]

CatchPromiseError(op, ex) ==
    [op EXCEPT !.uncaught = @ \cup {ex}, !.pc = "abandoned"]

\* catchPromiseError given to hookReturn.catch by _triggerSync: it runs after
\* _triggerSync is over, and the error is thrown from a setImmediate callback.
ThrowLaterDropped(op, ex) == op

ThrowLater(op, ex) == [op EXCEPT !.uncaught = @ \cup {ex}]

\* _trigger.runNextHook
RunNextHookAsync(op, h, out) ==
    IF Truthy(op.error)
    THEN [op EXCEPT !.curHookNum = FailedCursor(@), !.pc = "runNextErrorHook"]
    ELSE IF op.curHookNum >= HookCount(op, h)
    THEN [op EXCEPT !.pc = "resolved"]
    ELSE LET hook == HookAt(op, h)
             called == [op EXCEPT !.curHookNum = @ + 1,
                                  !.calls = Append(@, [kind |-> "h", idx |-> op.curHookNum,
                                                       hookNumber |-> hook.hookNumber,
                                                       error |-> Undefined,
                                                       thisPtr |-> ReceiverOf(op),
                                                       args |-> HandlerArguments(hook, op.args)])]
         IN CASE Seen(hook, out).how = "plain" ->
                   [called EXCEPT !.curHookResults = Append(@, hook.hookNumber),
                                  !.pc = "runNextHook", !.error = Undefined]
              [] Seen(hook, out).how = "promise" ->
                   AwaitHandler(called, <<"h", op.curHookNum, hook.hookNumber>>)
              [] Seen(hook, out).how = "throw" ->
                   [called EXCEPT !.fails = Append(@, [idx |-> op.curHookNum,
                                                       val |-> out.val, how |-> "throw"]),
                                  !.pc = "runNextHook", !.error = out.val]

\* _trigger.runNextErrorHook
RunNextErrorHookAsync(op, h, out) ==
    IF op.curHookNum < 0
    THEN IF Truthy(op.triggerWithError)
         THEN [op EXCEPT !.pc = "resolved"]
         ELSE [op EXCEPT !.pc = "rejected", !.value = op.error]
    ELSE LET hook == HookAt(op, h)
             called == [op EXCEPT !.curHookNum = @ - 1,
                                  !.calls = Append(@, [kind |-> "e", idx |-> op.curHookNum,
                                                       hookNumber |-> hook.hookNumber,
                                                       error |-> op.error,
                                                       thisPtr |-> ReceiverOf(op),
                                                       args |-> HandlerArguments(hook, <<op.error>> \o op.args)])]
         IN IF ~hook.errorHandler
            THEN [op EXCEPT !.curHookNum = @ - 1]
            ELSE CASE Seen(hook, out).how = "plain" -> called
                   [] Seen(hook, out).how = "promise" ->
                        AwaitErrorHandler(called, <<"e", op.curHookNum, hook.hookNumber>>)
                   [] Seen(hook, out).how = "throw" -> CatchPromiseError(called, out.val)

\* An exception leaves runNextHook or runNextErrorHook of _triggerSync.  Every
\* runNextHook frame that called on from inside its try block catches it and
\* calls runNextHook(ex); a frame that called on from its catch block lets it
\* through.
PropagateSwallowed(op, ex) == [op EXCEPT !.pc = "returned", !.stack = <<>>]

Propagate(op, ex) ==
    LET tries == {k \in 1..Len(op.stack) : op.stack[k] = "try"}
    IN IF tries = {}
       THEN [op EXCEPT !.pc = "threw", !.value = ex, !.stack = <<>>]
       ELSE LET k == CHOOSE i \in tries : \A j \in tries : j <= i
            IN [op EXCEPT !.stack = Append(SubSeq(@, 1, k - 1), "catch"),
                          !.pc = "runNextHook", !.error = ex]

\* _triggerSync.runNextHook
RunNextHookSync(op, h, out) ==
    IF Truthy(op.error)
    THEN [op EXCEPT !.curHookNum = FailedCursor(@), !.pc = "runNextErrorHook"]
    ELSE IF op.curHookNum >= HookCount(op, h)
    THEN [op EXCEPT !.pc = "returned", !.stack = <<>>]
    ELSE IF op.curHookNum < 0
    THEN \* hookArray[curHookNum] is undefined: hook.handler throws in the try block
         [op EXCEPT !.curHookNum = @ + 1, !.stack = Append(@, "catch"),
                    !.pc = "runNextHook", !.error = TypeError]
    ELSE LET hook == HookAt(op, h)
             called == [op EXCEPT !.curHookNum = @ + 1,
                                  !.calls = Append(@, [kind |-> "h", idx |-> op.curHookNum,
                                                       hookNumber |-> hook.hookNumber,
                                                       error |-> Undefined,
                                                       thisPtr |-> ReceiverOf(op),
                                                       args |-> HandlerArguments(hook, op.args)])]
         IN CASE Seen(hook, out).how = "plain" ->
                   [called EXCEPT !.curHookResults = Append(@, hook.hookNumber),
                                  !.stack = Append(@, "try"),
                                  !.pc = "runNextHook", !.error = Undefined]
              [] Seen(hook, out).how = "promise" ->
                   [called EXCEPT !.inflight = @ \cup {<<"h", op.curHookNum, hook.hookNumber>>},
                                  !.stack = Append(@, "try"),
                                  !.pc = "runNextHook", !.error = Undefined]
              [] Seen(hook, out).how = "throw" ->
                   [called EXCEPT !.fails = Append(@, [idx |-> op.curHookNum,
                                                       val |-> out.val, how |-> "throw"]),
                                  !.stack = Append(@, "catch"),
                                  !.pc = "runNextHook", !.error = out.val]

\* _triggerSync.runNextErrorHook
RunNextErrorHookSync(op, h, out) ==
    IF op.curHookNum < 0
    THEN IF Truthy(op.triggerWithError)
         THEN [op EXCEPT !.pc = "returned", !.stack = <<>>]
         ELSE Propagate(op, op.error)
    ELSE LET hook == HookAt(op, h)
             called == [op EXCEPT !.curHookNum = @ - 1,
                                  !.calls = Append(@, [kind |-> "e", idx |-> op.curHookNum,
                                                       hookNumber |-> hook.hookNumber,
                                                       error |-> op.error,
                                                       thisPtr |-> ReceiverOf(op),
                                                       args |-> HandlerArguments(hook, <<op.error>> \o op.args)])]
         IN IF ~hook.errorHandler
            THEN [op EXCEPT !.curHookNum = @ - 1]
            ELSE CASE Seen(hook, out).how = "plain" -> called
                   [] Seen(hook, out).how = "promise" ->
                        [called EXCEPT !.inflight = @ \cup {<<"e", op.curHookNum, hook.hookNumber>>}]
                   [] Seen(hook, out).how = "throw" ->
                        Propagate([called EXCEPT !.unwindFailures = @ \cup {out.val}],
                                  out.val)

\* A run of n entries makes at most 2n - 1 invocations unless _triggerSync
\* resumes the forward run after an unwind; the invocations beyond that are
\* bounded.
MayInvoke(op) == Len(op.calls) < 2 * Len(op.hookArray) - 1 + MaxRepeatedCalls

\* Whether the next call of runNextHook / runNextErrorHook invokes a handler.
InvokesHandler(op, h) ==
    /\ op.pc = "runNextHook"
    /\ ~Truthy(op.error)
    /\ op.curHookNum >= 0
    /\ op.curHookNum < HookCount(op, h)

InvokesErrorHandler(op, h) ==
    /\ op.pc = "runNextErrorHook"
    /\ op.curHookNum >= 0
    /\ HookAt(op, h).errorHandler

-----------------------------------------------------------------------------
\* Actions

\* trigger(name, ...)
Trigger(o) ==
    /\ Standalone(o)
    /\ \E name \in Names :
          /\ ops' = [ops EXCEPT ![o] = StartOp(_hooks, "trigger", "async", name, Undefined)]
          /\ _hooks' = SortHooks(_hooks, name)
    /\ UNCHANGED wrap

\* triggerError(name, error): error = args.shift() || new Error()
TriggerError(o) ==
    /\ Standalone(o)
    /\ \E name \in Names, error \in SuppliedErrors :
          /\ ops' = [ops EXCEPT ![o] =
                        [StartOp(_hooks, "triggerError", "async", name,
                                 OrElse(error, NewError)) EXCEPT !.supplied = error]]
          /\ _hooks' = SortHooks(_hooks, name)
    /\ UNCHANGED wrap

\* CrispHooksBase.triggerError(name, error): triggerWithError: error
MixinTriggerError(o) ==
    /\ Standalone(o)
    /\ \E name \in Names, error \in SuppliedErrors :
          /\ ops' = [ops EXCEPT ![o] =
                        [StartOp(_hooks, "mixin.triggerError", "async", name, error)
                            EXCEPT !.supplied = error]]
          /\ _hooks' = SortHooks(_hooks, name)
    /\ UNCHANGED wrap

\* triggerSync(name, ...)
TriggerSync(o) ==
    /\ Standalone(o)
    /\ \E name \in Names :
          /\ ops' = [ops EXCEPT ![o] = StartOp(_hooks, "triggerSync", "sync", name, Undefined)]
          /\ _hooks' = SortHooks(_hooks, name)
    /\ UNCHANGED wrap

\* triggerErrorSync(name, error)
TriggerErrorSync(o) ==
    /\ Standalone(o)
    /\ \E name \in Names, error \in SuppliedErrors :
          /\ ops' = [ops EXCEPT ![o] =
                        [StartOp(_hooks, "triggerErrorSync", "sync", name,
                                 OrElse(error, NewError)) EXCEPT !.supplied = error]]
          /\ _hooks' = SortHooks(_hooks, name)
    /\ UNCHANGED wrap

\* CrispHooksBase.triggerErrorSync(name, error)
MixinTriggerErrorSync(o) ==
    /\ Standalone(o)
    /\ \E name \in Names, error \in SuppliedErrors :
          /\ ops' = [ops EXCEPT ![o] =
                        [StartOp(_hooks, "mixin.triggerErrorSync", "sync", name, error)
                            EXCEPT !.supplied = error]]
          /\ _hooks' = SortHooks(_hooks, name)
    /\ UNCHANGED wrap

RunNextHook(o) ==
    /\ ops[o].pc = "runNextHook"
    /\ InvokesHandler(ops[o], _hooks) => MayInvoke(ops[o])
    /\ \E out \in HandlerOutcomes :
          ops' = [ops EXCEPT ![o] = IF ops[o].engine = "async"
                                    THEN RunNextHookAsync(ops[o], _hooks, out)
                                    ELSE RunNextHookSync(ops[o], _hooks, out)]
    /\ UNCHANGED <<_hooks, wrap>>

RunNextErrorHook(o) ==
    /\ ops[o].pc = "runNextErrorHook"
    /\ InvokesErrorHandler(ops[o], _hooks) => MayInvoke(ops[o])
    /\ \E out \in ErrorHandlerOutcomes :
          ops' = [ops EXCEPT ![o] = IF ops[o].engine = "async"
                                    THEN RunNextErrorHookAsync(ops[o], _hooks, out)
                                    ELSE RunNextErrorHookSync(ops[o], _hooks, out)]
    /\ UNCHANGED <<_hooks, wrap>>

\* A promise returned by a handler to _trigger settles.
SettleHandler(o) ==
    /\ ops[o].engine = "async"
    /\ \E p \in ops[o].inflight :
          /\ p[1] = "h"
          /\ ~ops[o].hookArray[p[2] + 1].wrapped
          /\ \/ ops' = [ops EXCEPT ![o] = HandlerResolved(ops[o], p)]
             \/ \E v \in FailValues :
                   ops' = [ops EXCEPT ![o] = HandlerRejected(ops[o], p, v)]
    /\ UNCHANGED <<_hooks, wrap>>

\* The values a handler passes as the callback's second argument.
CallbackResults == {100, 101}

\* The values a handler passes as the callback's first argument.
CallbackErrors == {"null", "0", "E1"}

\* A handler registered with hookAsync calls its callback for the first time:
\* if(error) reject(error); else resolve(result); and the engine's then
\* callbacks run.
CallNextIgnoringError(op, p, error, result) ==
    [HandlerResolved(op, p) EXCEPT
        !.curHookResults = Append(op.curHookResults, result),
        !.callbacks = Append(@, [idx |-> p[2], error |-> error, result |-> result])]

CallNext(op, p, error, result) ==
    IF Truthy(error)
    THEN [HandlerRejected(op, p, error) EXCEPT
             !.callbacks = Append(@, [idx |-> p[2], error |-> error, result |-> result])]
    ELSE [HandlerResolved(op, p) EXCEPT
             !.curHookResults = Append(op.curHookResults, result),
             !.callbacks = Append(@, [idx |-> p[2], error |-> error, result |-> result])]

\* function(error, result) given to the handler by the wrapper of hookAsync
CallbackCalled(o) ==
    /\ ops[o].engine = "async"
    /\ \E p \in ops[o].inflight :
          /\ p[1] = "h"
          /\ ops[o].hookArray[p[2] + 1].wrapped
          /\ \E error \in CallbackErrors, result \in CallbackResults :
                ops' = [ops EXCEPT ![o] = CallNext(ops[o], p, error, result)]
    /\ UNCHANGED <<_hooks, wrap>>

\* A handler registered with hookAsync throws before it has called its
\* callback: the promise made by the wrapper rejects with what was thrown.
ThrowsBeforeCallback(o) ==
    /\ ops[o].engine = "async"
    /\ \E p \in ops[o].inflight :
          /\ p[1] = "h"
          /\ ops[o].hookArray[p[2] + 1].wrapped
          /\ \E v \in FailValues :
                ops' = [ops EXCEPT ![o] = HandlerRejected(ops[o], p, v)]
    /\ UNCHANGED <<_hooks, wrap>>

\* A promise returned by an error-cleanup handler to _trigger settles.
SettleErrorHandler(o) ==
    /\ ops[o].engine = "async"
    /\ \E p \in ops[o].inflight :
          /\ p[1] = "e"
          /\ \/ ops' = [ops EXCEPT ![o] = [ops[o] EXCEPT !.inflight = @ \ {p},
                                                         !.pc = "runNextErrorHook"]]
             \/ \E v \in CleanupFailValues :
                   ops' = [ops EXCEPT ![o] =
                              CatchPromiseError([ops[o] EXCEPT !.inflight = @ \ {p}], v)]
    /\ UNCHANGED <<_hooks, wrap>>

\* A promise returned to _triggerSync settles, which is after _triggerSync has
\* returned or thrown: hookReturn.catch(catchPromiseError)
SettleSync(o) ==
    /\ ops[o].engine = "sync"
    /\ ~Active(ops[o])
    /\ \E p \in ops[o].inflight :
          \/ ops' = [ops EXCEPT ![o] = [ops[o] EXCEPT !.inflight = @ \ {p}]]
          \/ \E v \in FailValues :
                ops' = [ops EXCEPT ![o] =
                           ThrowLater([ops[o] EXCEPT !.inflight = @ \ {p},
                                                     !.rejections = @ \cup {<<p, v>>}],
                                      v)]
    /\ UNCHANGED <<_hooks, wrap>>

-----------------------------------------------------------------------------
\* Calls with a receiver and arguments for the hooks

\* What a caller of the constructor API passes: [thisPtr,] name, arg1..argN
CallArguments(names) ==
    {<<n>> \o a : n \in names, a \in HookArguments}
        \cup {<<CallerObject, n>> \o a : n \in names, a \in HookArguments}

\* thisPtr = (typeof args[0] == 'string') ? this : args.shift();
\* name = args.shift(); what is left goes to the hooks
ParseArguments(arguments) ==
    IF TypeOf(arguments[1]) = "string"
    THEN [thisPtr |-> Container, name |-> arguments[1], args |-> Tail(arguments)]
    ELSE [thisPtr |-> arguments[1], name |-> arguments[2],
          args |-> Tail(Tail(arguments))]

\* _trigger(args, triggerWithError) and _triggerSync(args, triggerWithError)
StartCall(h, api, engine, arguments, triggerWithError) ==
    LET p == ParseArguments(arguments)
    IN [StartOp(h, api, engine, p.name, triggerWithError)
           EXCEPT !.thisPtr = p.thisPtr, !.args = p.args]

\* trigger([thisPtr,] name, arg1..argN)
TriggerCall(o, names) ==
    /\ Standalone(o)
    /\ \E arguments \in CallArguments(names) :
          /\ ops' = [ops EXCEPT ![o] =
                        StartCall(_hooks, "trigger", "async", arguments, Undefined)]
          /\ _hooks' = SortHooks(_hooks, ParseArguments(arguments).name)
    /\ UNCHANGED wrap

\* triggerSync([thisPtr,] name, arg1..argN)
TriggerSyncCall(o, names) ==
    /\ Standalone(o)
    /\ \E arguments \in CallArguments(names) :
          /\ ops' = [ops EXCEPT ![o] =
                        StartCall(_hooks, "triggerSync", "sync", arguments, Undefined)]
          /\ _hooks' = SortHooks(_hooks, ParseArguments(arguments).name)
    /\ UNCHANGED wrap

\* triggerError([thisPtr,] name, error) and triggerErrorSync([thisPtr,] name,
\* error): this._trigger([thisPtr, name], error) with error = args.shift() ||
\* new Error()
TriggerErrorCall(o, names, engine) ==
    /\ Standalone(o)
    /\ \E arguments \in CallArguments(names), error \in SuppliedErrors :
          LET p == ParseArguments(arguments)
              api == IF engine = "async" THEN "triggerError" ELSE "triggerErrorSync"
          IN /\ ops' = [ops EXCEPT ![o] =
                           [StartCall(_hooks, api, engine, <<p.thisPtr, p.name>>,
                                      OrElse(error, NewError))
                               EXCEPT !.supplied = error]]
             /\ _hooks' = SortHooks(_hooks, p.name)
    /\ UNCHANGED wrap

\* CrispHooksBase.trigger(name, ...args) and triggerSync(name, ...args):
\* this._trigger({ name, args })
MixinTriggerCall(o, names, engine) ==
    /\ Standalone(o)
    /\ \E name \in names, args \in HookArguments :
          LET api == IF engine = "async" THEN "mixin.trigger" ELSE "mixin.triggerSync"
          IN /\ ops' = [ops EXCEPT ![o] =
                           [StartOp(_hooks, api, engine, name, Undefined)
                               EXCEPT !.args = args]]
             /\ _hooks' = SortHooks(_hooks, name)
    /\ UNCHANGED wrap

\* Handlers that return plain values or throw, and error-cleanup handlers that
\* return plain values.
SynchronousOutcomes == {out \in HandlerOutcomes : out.how # "promise"}
PlainOutcomes == {out \in ErrorHandlerOutcomes : out.how = "plain"}

\* What the handler of entry idx did when it was invoked before, by either
\* operation: a handler that is a function of its arguments does it again.
EarlierOutcomes(idx) ==
    {IF \E k \in 1..Len(ops[q].fails) : ops[q].fails[k].idx = idx
     THEN [how |-> "throw",
           val |-> ops[q].fails[CHOOSE k \in 1..Len(ops[q].fails) :
                                    ops[q].fails[k].idx = idx].val]
     ELSE [how |-> "plain", val |-> Undefined] :
        q \in {r \in OpIds : \E k \in 1..Len(ops[r].calls) :
                                 /\ ops[r].calls[k].kind = "h"
                                 /\ ops[r].calls[k].idx = idx}}

\* runNextHook with handlers that are synchronous functions of their arguments
RunNextPureHook(o) ==
    /\ ops[o].pc = "runNextHook"
    /\ InvokesHandler(ops[o], _hooks) => MayInvoke(ops[o])
    /\ \E out \in SynchronousOutcomes :
          /\ InvokesHandler(ops[o], _hooks) =>
                 \A e \in EarlierOutcomes(ops[o].curHookNum) : e = out
          /\ ops' = [ops EXCEPT ![o] = IF ops[o].engine = "async"
                                       THEN RunNextHookAsync(ops[o], _hooks, out)
                                       ELSE RunNextHookSync(ops[o], _hooks, out)]
    /\ UNCHANGED <<_hooks, wrap>>

\* runNextErrorHook with error-cleanup handlers that return plain values
RunNextPlainErrorHook(o) ==
    /\ ops[o].pc = "runNextErrorHook"
    /\ InvokesErrorHandler(ops[o], _hooks) => MayInvoke(ops[o])
    /\ \E out \in PlainOutcomes :
          ops' = [ops EXCEPT ![o] = IF ops[o].engine = "async"
                                    THEN RunNextErrorHookAsync(ops[o], _hooks, out)
                                    ELSE RunNextErrorHookSync(ops[o], _hooks, out)]
    /\ UNCHANGED <<_hooks, wrap>>

-----------------------------------------------------------------------------
\* triggerWrap

\* What fn returns, or what the promise it returns resolves with.
BodyValue == "R"

\* The value a promise resolves with: one value, or an array of values.
PlainValue(v) == [type |-> "plain", items |-> <<v>>]
ArrayValue(a) == [type |-> "array", items |-> a]

\* What triggerAsync and triggerErrorAsync call the caller's callback with, by
\* the functions they give to then.
CompletionWithoutResults(op) ==
    [error |-> IF op.pc = "rejected" THEN op.value ELSE "null",
     result |-> PlainValue(Undefined)]

Completion(op) ==
    IF op.pc = "rejected"
    THEN [error |-> op.value, result |-> PlainValue(Undefined)]
    ELSE IF op.api = "triggerAsync"
    THEN [error |-> "null", result |-> ArrayValue(op.curHookResults)]
    ELSE [error |-> Undefined, result |-> PlainValue(Undefined)]

\* triggerAsync([thisPtr,] name, arg1..argN, callback): this._trigger(args)
TriggerAsync(o) ==
    /\ Standalone(o)
    /\ \E arguments \in CallArguments({"X"}) :
          /\ ops' = [ops EXCEPT ![o] =
                        StartCall(_hooks, "triggerAsync", "async", arguments, Undefined)]
          /\ _hooks' = SortHooks(_hooks, ParseArguments(arguments).name)
    /\ UNCHANGED wrap

\* triggerErrorAsync([thisPtr,] name, error, callback):
\* this._trigger([thisPtr, name], error) with error = args.shift() || new Error()
TriggerErrorAsync(o) ==
    /\ Standalone(o)
    /\ \E arguments \in CallArguments({"X"}), error \in SuppliedErrors :
          LET p == ParseArguments(arguments)
          IN /\ ops' = [ops EXCEPT ![o] =
                           [StartCall(_hooks, "triggerErrorAsync", "async",
                                      <<p.thisPtr, p.name>>, OrElse(error, NewError))
                               EXCEPT !.supplied = error]]
             /\ _hooks' = SortHooks(_hooks, p.name)
    /\ UNCHANGED wrap

\* The promise of _trigger has settled: one of the two functions given to then
\* calls the callback, and what the callback throws goes to catchPromiseError.
CompletionCalled(o) ==
    /\ ops[o].api \in {"triggerAsync", "triggerErrorAsync"}
    /\ ops[o].pc \in {"resolved", "rejected"}
    /\ ops[o].completions = <<>>
    /\ \/ ops' = [ops EXCEPT ![o].completions = Append(@, Completion(ops[o]))]
       \/ \E ex \in FailValues :
             ops' = [ops EXCEPT ![o].completions = Append(@, Completion(ops[o])),
                                ![o].uncaught = @ \cup {ex}]
    /\ UNCHANGED <<_hooks, wrap>>

IdleWrap ==
    [pc |-> "idle", api |-> "none", stage |-> "none", name |-> "X",
     bodyResult |-> Undefined, result |-> PlainValue(Undefined),
     ranPreHooks |-> FALSE,
     ranNeutralHooks |-> FALSE, error |-> Undefined, value |-> Undefined,
     log |-> <<>>, fails |-> <<>>, failedStage |-> "none",
     thisPtr |-> Container, args |-> <<>>]

PreName(name) == "pre-" \o name
PostNameUnprefixed(name) == name

PostName(name) == "post-" \o name

\* The invocations of one trigger or triggerError, labelled with its name and
\* preceded by the length of its snapshot.
Tagged(op) ==
    IF op.pc = "idle" THEN <<>>
    ELSE <<[name |-> op.name, kind |-> "s", idx |-> Len(op.hookArray),
            hookNumber |-> 0, error |-> Undefined,
            thisPtr |-> Undefined, args |-> <<>>]>>
            \o [i \in 1..Len(op.calls) |->
                    [name |-> op.name, kind |-> op.calls[i].kind, idx |-> op.calls[i].idx,
                     hookNumber |-> op.calls[i].hookNumber, error |-> op.calls[i].error,
                     thisPtr |-> op.calls[i].thisPtr, args |-> op.calls[i].args]]

\* Everything invoked on behalf of the current triggerWrap, in order.
WrapTrace(o) == wrap.log \o Tagged(ops[o])

\* The failures of handlers of one trigger, labelled with its name.
TaggedFails(op) ==
    [i \in 1..Len(op.fails) |->
        [name |-> op.name, idx |-> op.fails[i].idx, val |-> op.fails[i].val,
         how |-> op.fails[i].how]]

\* Every failure of a handler or of the body in the current triggerWrap.
WrapFails(o) == wrap.fails \o TaggedFails(ops[o])

\* runHooks(name): self.trigger.apply(thisPtr, [self, name].concat(args)),
\* which runs this._trigger([self, name, ...args]) on a receiver that is the
\* container, and this.trigger(name, ...args) of the mixin API.
RunHooks(o, name) ==
    /\ ops' = [ops EXCEPT ![o] =
                  IF wrap'.api = "mixin.triggerWrap"
                  THEN [StartOp(_hooks, "mixin.trigger", "async", name, Undefined)
                           EXCEPT !.args = wrap'.args]
                  ELSE StartCall(_hooks, "trigger", "async",
                                 <<Container, name>> \o wrap'.args, Undefined)]
    /\ _hooks' = SortHooks(_hooks, name)

\* self.triggerError(thisPtr, name, error), which runs
\* this._trigger([thisPtr, name], error || new Error()), and
\* this.triggerError(name, error) of the mixin API.
RunErrorHooks(o, thisPtr, name, error) ==
    /\ ops' = [ops EXCEPT ![o] =
                  IF wrap.api = "mixin.triggerWrap"
                  THEN StartOp(_hooks, "mixin.triggerError", "async", name, error)
                  ELSE StartCall(_hooks, "triggerError", "async", <<thisPtr, name>>,
                                 OrElse(error, NewError))]
    /\ _hooks' = SortHooks(_hooks, name)

\* triggerWrap(name, fn, ...) up to runHooks('pre-' + name)
TriggerWrap(o) ==
    /\ wrap.pc \in {"idle", "resolved", "rejected"}
    /\ Free(ops[o])
    /\ wrap' = [IdleWrap EXCEPT !.pc = "hooks", !.stage = "pre",
                                !.api = "triggerWrap"]
    /\ RunHooks(o, PreName("X"))

\* CrispHooksBase.triggerWrap(name, fn, ...) up to runHooks('pre-' + name)
MixinTriggerWrap(o) ==
    /\ wrap.pc \in {"idle", "resolved", "rejected"}
    /\ Free(ops[o])
    /\ wrap' = [IdleWrap EXCEPT !.pc = "hooks", !.stage = "pre",
                                !.api = "mixin.triggerWrap"]
    /\ RunHooks(o, PreName("X"))

\* A receiver that has the methods of a hook container: trigger calls
\* this._trigger on it.
HasTrigger(thisPtr) == thisPtr = Container

\* triggerWrap([thisPtr,] name, fn, arg1..argN) up to runHooks('pre-' + name).
\* trigger is applied to thisPtr, and on an object without _trigger the call
\* this._trigger(...) is a TypeError thrown out of triggerWrap.
TriggerWrapCall(o) ==
    /\ wrap.pc \in {"idle", "resolved", "rejected", "threw"}
    /\ Free(ops[o])
    /\ \E arguments \in CallArguments({"X"}) :
          LET p == ParseArguments(arguments)
              called == [IdleWrap EXCEPT !.api = "triggerWrap", !.name = p.name,
                                         !.thisPtr = p.thisPtr, !.args = p.args]
          IN IF HasTrigger(p.thisPtr)
             THEN /\ wrap' = [called EXCEPT !.pc = "hooks", !.stage = "pre"]
                  /\ RunHooks(o, PreName(p.name))
             ELSE /\ wrap' = [called EXCEPT !.pc = "threw", !.value = TypeError]
                  /\ ops' = [ops EXCEPT ![o] = IdleOp]
                  /\ UNCHANGED _hooks

\* CrispHooksBase.triggerWrap(name, fn, ...args) up to runHooks('pre-' + name)
MixinTriggerWrapCall(o) ==
    /\ wrap.pc \in {"idle", "resolved", "rejected", "threw"}
    /\ Free(ops[o])
    /\ \E args \in HookArguments :
          /\ wrap' = [IdleWrap EXCEPT !.pc = "hooks", !.stage = "pre",
                                      !.api = "mixin.triggerWrap", !.args = args]
          /\ RunHooks(o, PreName("X"))

\* function() { ranPreHooks = true; return runHooks(name); }
WrapRunMain(o) ==
    /\ wrap.pc = "hooks" /\ wrap.stage = "pre"
    /\ ops[o].pc = "resolved"
    /\ wrap' = [wrap EXCEPT !.ranPreHooks = TRUE, !.stage = "main",
                            !.log = WrapTrace(o), !.fails = WrapFails(o)]
    /\ RunHooks(o, wrap.name)

\* function() { ranNeutralHooks = true; return fn.apply(thisPtr, args); }, and
\* return fn() of the mixin API
WrapRunBody(o) ==
    /\ wrap.pc = "hooks" /\ wrap.stage = "main"
    /\ ops[o].pc = "resolved"
    /\ \E out \in HandlerOutcomes :
          wrap' = [wrap EXCEPT !.ranNeutralHooks = TRUE, !.stage = "body",
                              !.log = Append(WrapTrace(o),
                                             [name |-> "body", kind |-> "b", idx |-> 0,
                                              hookNumber |-> 0, error |-> Undefined,
                                              thisPtr |-> IF wrap.api = "mixin.triggerWrap"
                                                          THEN Undefined ELSE wrap.thisPtr,
                                              args |-> IF wrap.api = "mixin.triggerWrap"
                                                       THEN <<>> ELSE wrap.args]),
                              !.fails = IF out.how = "throw"
                                        THEN Append(WrapFails(o),
                                                    [name |-> "body", idx |-> 0,
                                                     val |-> out.val, how |-> "throw"])
                                        ELSE WrapFails(o),
                              !.pc = CASE out.how = "plain" -> "bodyDone"
                                       [] out.how = "promise" -> "awaitBody"
                                       [] out.how = "throw" -> "failed",
                              !.bodyResult = IF out.how = "plain" THEN BodyValue
                                             ELSE Undefined,
                              !.error = out.val]
    /\ ops' = [ops EXCEPT ![o] = IdleOp]
    /\ UNCHANGED _hooks

\* The promise returned by fn settles.
SettleBody ==
    /\ wrap.pc = "awaitBody"
    /\ \/ wrap' = [wrap EXCEPT !.pc = "bodyDone", !.bodyResult = BodyValue]
       \/ \E v \in FailValues :
             wrap' = [wrap EXCEPT !.pc = "failed", !.error = v,
                                  !.fails = Append(@, [name |-> "body", idx |-> 0,
                                                       val |-> v, how |-> "reject"])]
    /\ UNCHANGED <<_hooks, ops>>

\* function() { return runHooks('post-' + name); }
WrapRunPost(o) ==
    /\ wrap.pc = "bodyDone"
    /\ wrap' = [wrap EXCEPT !.pc = "hooks", !.stage = "post"]
    /\ RunHooks(o, PostName(wrap.name))

\* The promise of the post hooks resolved and no callback is left: the promise
\* returned by triggerWrap resolves with that result.
WrapResolve(o) ==
    /\ wrap.pc = "hooks" /\ wrap.stage = "post"
    /\ ops[o].pc = "resolved"
    /\ wrap' = [wrap EXCEPT !.pc = "resolved",
                            !.result = ArrayValue(ops[o].curHookResults),
                            !.log = WrapTrace(o), !.fails = WrapFails(o)]
    /\ ops' = [ops EXCEPT ![o] = IdleOp]
    /\ UNCHANGED _hooks

\* catch(function(error) { return cleanupOnError(error); })
WrapCatch(o) ==
    /\ \/ wrap.pc = "hooks" /\ ops[o].pc = "rejected"
       \/ wrap.pc = "failed"
    /\ LET error == IF wrap.pc = "failed" THEN wrap.error ELSE ops[o].value
       IN IF wrap.ranNeutralHooks
          THEN /\ wrap' = [wrap EXCEPT !.pc = "cleanup", !.stage = "cleanupMain",
                                       !.failedStage = wrap.stage,
                                       !.error = error, !.log = WrapTrace(o), !.fails = WrapFails(o)]
               /\ RunErrorHooks(o, wrap.thisPtr, wrap.name, error)
          ELSE IF wrap.ranPreHooks
          THEN \* the promise of triggerError is not returned: the catch
               \* callback returns undefined
               /\ wrap' = [wrap EXCEPT !.pc = "resolved", !.stage = "cleanupPre",
                                       !.result = PlainValue(Undefined),
                                       !.failedStage = wrap.stage,
                                       !.error = error, !.log = WrapTrace(o), !.fails = WrapFails(o)]
               /\ RunErrorHooks(o, wrap.thisPtr, PreName(wrap.name), error)
          ELSE /\ wrap' = [wrap EXCEPT !.pc = "rejected", !.error = error,
                                       !.failedStage = wrap.stage,
                                       !.value = error, !.log = WrapTrace(o), !.fails = WrapFails(o)]
               /\ ops' = [ops EXCEPT ![o] = IdleOp]
               /\ UNCHANGED _hooks

\* function() { return self.triggerError(self, 'pre-' + name, error); }
WrapCleanupPre(o) ==
    /\ wrap.pc = "cleanup" /\ wrap.stage = "cleanupMain"
    /\ ops[o].pc = "resolved"
    /\ wrap' = [wrap EXCEPT !.stage = "cleanupPre", !.log = WrapTrace(o), !.fails = WrapFails(o)]
    /\ RunErrorHooks(o, Container, PreName(wrap.name), wrap.error)

\* function() { return Promise.reject(error); }
WrapReject(o) ==
    /\ wrap.pc = "cleanup" /\ wrap.stage = "cleanupPre"
    /\ ops[o].pc = "resolved"
    /\ wrap' = [wrap EXCEPT !.pc = "rejected", !.value = wrap.error,
                            !.log = WrapTrace(o), !.fails = WrapFails(o)]
    /\ ops' = [ops EXCEPT ![o] = IdleOp]
    /\ UNCHANGED _hooks

\* A triggerError of cleanupOnError rejected (which takes a forward run of
\* the mixin's triggerError): the promise returned by cleanupOnError rejects
\* with that error.
WrapCleanupFailed(o) ==
    /\ wrap.pc = "cleanup"
    /\ ops[o].pc = "rejected"
    /\ wrap' = [wrap EXCEPT !.pc = "rejected", !.value = ops[o].value,
                            !.log = WrapTrace(o), !.fails = WrapFails(o)]
    /\ ops' = [ops EXCEPT ![o] = IdleOp]
    /\ UNCHANGED _hooks

-----------------------------------------------------------------------------
\* The callback API (1.x)

\* _addHook(isAsync, args) of the callback API: the entry records isAsync.
V1AddHookTo(h, name, priority, isAsync, errorHandler) ==
    LET nameHooks == IF name \in DOMAIN h THEN h[name] ELSE EmptyNameHooks
        pushed == Append(nameHooks.hooks,
                         [priority |-> priority,
                          hookNumber |-> nameHooks.hookCtr,
                          async |-> isAsync,
                          errorHandler |-> errorHandler])
        updated == [hooks |-> pushed,
                    sorted |-> IF Len(pushed) > 1 THEN FALSE ELSE nameHooks.sorted,
                    hookCtr |-> nameHooks.hookCtr + 1]
    IN [n \in (DOMAIN h) \cup {name} |-> IF n = name THEN updated ELSE h[n]]

\* The comparator of the callback API: a.hookCtr - b.hookCtr is NaN, which
\* sort takes as 0, for entries of equal priority.
V1CompareHooks(a, b) ==
    IF a.priority > b.priority THEN 1
    ELSE IF b.priority > a.priority THEN -1
    ELSE 0

RECURSIVE V1InsertHook(_, _)
V1InsertHook(sortedSeq, e) ==
    IF sortedSeq = <<>> THEN <<e>>
    ELSE IF V1CompareHooks(e, Head(sortedSeq)) < 0 THEN <<e>> \o sortedSeq
    ELSE <<Head(sortedSeq)>> \o V1InsertHook(Tail(sortedSeq), e)

RECURSIVE V1SortArray(_)
V1SortArray(s) ==
    IF s = <<>> THEN <<>>
    ELSE V1InsertHook(V1SortArray(SubSeq(s, 1, Len(s) - 1)), s[Len(s)])

\* _sortHooks of the callback API
V1SortHooks(h, name) ==
    IF name \notin DOMAIN h \/ Len(h[name].hooks) = 0 \/ h[name].sorted THEN h
    ELSE [h EXCEPT ![name] = [@ EXCEPT !.hooks = V1SortArray(@), !.sorted = TRUE]]

\* hookSync (isAsync false) and hookAsync (isAsync true) of the callback API
V1AddHook(isAsync, names, priorities) ==
    /\ TotalHooks < MaxV1Hooks
    /\ \E name \in names, priority \in priorities, errorHandler \in BOOLEAN :
          _hooks' = V1AddHookTo(_hooks, name, priority, isAsync, errorHandler)
    /\ UNCHANGED <<ops, wrap>>

V1Apis == {"v1.trigger", "v1.triggerError", "v1.triggerSync", "v1.triggerErrorSync"}
V1ErrorApis == {"v1.triggerError", "v1.triggerErrorSync"}

\* throwError(message): throw new Error(message)
ErrorOf(message) == "Error: " \o message

CannotUseTriggerSync == ErrorOf("Cannot use triggerSync when async hooks are registered")

\* What next is called with by a handler registered with hookAsync.
NextErrors == {Undefined, "0", "E1"}

\* What a handler of the callback API does: one registered with hookAsync
\* calls next before it returns, returns and has next called later, or
\* throws; one registered with hookSync returns or throws.
V1HandlerOutcomes ==
    {[how |-> "next", val |-> e] : e \in NextErrors}
        \cup {[how |-> "later", val |-> Undefined], [how |-> "plain", val |-> Undefined]}
        \cup {[how |-> "throw", val |-> v] : v \in FailValues}

V1Does(hook, out) ==
    IF hook.async THEN out.how \in {"next", "later", "throw"}
    ELSE out.how \in {"plain", "throw"}

\* hookArray = nameHooks.hooks: the array of the registry itself
V1HookArray(op, h) == h[op.name].hooks

\* The callback given to trigger and triggerError is called.  The one given by
\* triggerSync throws when it gets an error; every frame of runNextHook it
\* passes on its way out catches what it throws.
V1Callback(op, error) ==
    LET called == [op EXCEPT !.completions =
                                Append(@, [error |-> error,
                                           result |-> PlainValue(Undefined)])]
    IN IF op.api = "v1.triggerSync" /\ Truthy(error)
       THEN Propagate(called, ErrorOf(error))
       ELSE [called EXCEPT !.pc = "returned", !.stack = <<>>]

\* trigger.runNextHook of the callback API
V1RunNextHookStep(op, h, out) ==
    IF Truthy(op.error)
    THEN [op EXCEPT !.curHookNum = FailedCursor(@), !.pc = "runNextErrorHook"]
    ELSE IF op.curHookNum >= Len(V1HookArray(op, h))
    THEN V1Callback(op, Undefined)
    ELSE IF op.curHookNum < 0
    THEN \* hookArray[curHookNum] is undefined: hook.async throws in the try block
         [op EXCEPT !.curHookNum = @ + 1, !.stack = Append(@, "catch"),
                    !.pc = "runNextHook", !.error = TypeError]
    ELSE LET hook == V1HookArray(op, h)[op.curHookNum + 1]
             called == [op EXCEPT !.curHookNum = @ + 1,
                                  !.calls = Append(@, [kind |-> "h", idx |-> op.curHookNum,
                                                       hookNumber |-> hook.hookNumber,
                                                       error |-> Undefined,
                                                       thisPtr |-> op.thisPtr,
                                                       args |-> IF hook.async
                                                                THEN <<NextCallback>> \o op.args
                                                                ELSE op.args])]
         IN CASE out.how \in {"plain", "next"} ->
                   [called EXCEPT !.stack = Append(@, "try"),
                                  !.fails = IF Truthy(out.val)
                                            THEN Append(@, [idx |-> op.curHookNum,
                                                            val |-> out.val, how |-> "next"])
                                            ELSE @,
                                  !.pc = "runNextHook", !.error = out.val]
              [] out.how = "later" ->
                   [called EXCEPT !.inflight = @ \cup {<<"h", op.curHookNum, hook.hookNumber>>},
                                  !.stack = <<>>, !.pc = "await"]
              [] out.how = "throw" ->
                   [called EXCEPT !.fails = Append(@, [idx |-> op.curHookNum,
                                                       val |-> out.val, how |-> "throw"]),
                                  !.stack = Append(@, "catch"),
                                  !.pc = "runNextHook", !.error = out.val]

\* trigger.runNextErrorHook of the callback API: the error handler of an entry
\* registered with hookSync is read from hook.errHandler, which no entry has.
V1RunNextErrorHookInvoking(op, h, out) ==
    IF op.curHookNum < 0
    THEN V1Callback(op, op.error)
    ELSE LET hook == V1HookArray(op, h)[op.curHookNum + 1]
             called == [op EXCEPT !.curHookNum = @ - 1,
                                  !.calls = Append(@, [kind |-> "e", idx |-> op.curHookNum,
                                                       hookNumber |-> hook.hookNumber,
                                                       error |-> op.error,
                                                       thisPtr |-> op.thisPtr,
                                                       args |-> IF hook.async
                                                                THEN <<NextCallback, op.error>> \o op.args
                                                                ELSE <<op.error>> \o op.args])]
         IN IF ~hook.errorHandler
            THEN [op EXCEPT !.curHookNum = @ - 1]
            ELSE CASE out.how \in {"plain", "next"} -> called
                   [] out.how = "later" ->
                        [called EXCEPT !.inflight = @ \cup {<<"e", op.curHookNum, hook.hookNumber>>},
                                       !.stack = <<>>, !.pc = "await"]
                   [] out.how = "throw" ->
                        Propagate([called EXCEPT !.unwindFailures = @ \cup {out.val}],
                                  out.val)

V1RunNextErrorHookStep(op, h, out) ==
    IF op.curHookNum < 0
    THEN V1Callback(op, op.error)
    ELSE LET hook == V1HookArray(op, h)[op.curHookNum + 1]
         IN IF hook.errorHandler /\ ~hook.async
            THEN Propagate([op EXCEPT !.curHookNum = @ - 1,
                                      !.unwindFailures = @ \cup {TypeError}],
                           TypeError)
            ELSE V1RunNextErrorHookInvoking(op, h, out)

\* triggerError.runNextHook of the callback API
V1TriggerErrorStep(op, h, out) ==
    IF op.curHookNum < 0
    THEN V1Callback(op, Undefined)
    ELSE LET hook == V1HookArray(op, h)[op.curHookNum + 1]
             called == [op EXCEPT !.curHookNum = @ - 1,
                                  !.calls = Append(@, [kind |-> "e", idx |-> op.curHookNum,
                                                       hookNumber |-> hook.hookNumber,
                                                       error |-> op.supplied,
                                                       thisPtr |-> op.thisPtr,
                                                       args |-> IF hook.async
                                                                THEN <<NextCallback>> \o op.args
                                                                ELSE op.args])]
         IN IF ~hook.errorHandler
            THEN [op EXCEPT !.curHookNum = @ - 1]
            ELSE CASE out.how \in {"plain", "next"} -> called
                   [] out.how = "later" ->
                        [called EXCEPT !.inflight = @ \cup {<<"e", op.curHookNum, hook.hookNumber>>},
                                       !.stack = <<>>, !.pc = "await"]
                   [] out.how = "throw" ->
                        [called EXCEPT !.unwindFailures = @ \cup {out.val},
                                       !.pc = "threw", !.value = out.val, !.stack = <<>>]

\* trigger and triggerError of the callback API up to the first runNextHook
V1Start(h, api, arguments, error) ==
    LET p == ParseArguments(arguments)
        started == [IdleOp EXCEPT !.api = api, !.engine = "v1", !.name = p.name,
                                  !.thisPtr = p.thisPtr, !.supplied = error,
                                  !.args = IF api \in V1ErrorApis
                                           THEN <<error>> \o p.args ELSE p.args]
    IN IF p.name \notin DOMAIN h
       THEN V1Callback(started, Undefined)
       ELSE IF api \in V1ErrorApis
       THEN [started EXCEPT !.curHookNum = Len(h[p.name].hooks) - 1,
                            !.pc = "runNextErrorHook"]
       ELSE [started EXCEPT !.pc = "runNextHook"]

\* The check of triggerSync and triggerErrorSync before they call trigger and
\* triggerError.
V1AsyncRegistered(h, name) ==
    name \in DOMAIN h /\ \E i \in 1..Len(h[name].hooks) : h[name].hooks[i].async

V1Refused(api, arguments) ==
    [IdleOp EXCEPT !.api = api, !.engine = "v1",
                   !.name = ParseArguments(arguments).name,
                   !.thisPtr = ParseArguments(arguments).thisPtr,
                   !.args = ParseArguments(arguments).args,
                   !.pc = "threw", !.value = CannotUseTriggerSync]

\* trigger([thisPtr,] name, arg1..argN, cb)
V1Trigger(o) ==
    /\ Standalone(o)
    /\ \E arguments \in CallArguments({"X"}) :
          /\ ops' = [ops EXCEPT ![o] = V1Start(_hooks, "v1.trigger", arguments, Undefined)]
          /\ _hooks' = V1SortHooks(_hooks, ParseArguments(arguments).name)
    /\ UNCHANGED wrap

\* triggerError([thisPtr,] name, error, cb)
V1TriggerError(o) ==
    /\ Standalone(o)
    /\ \E arguments \in CallArguments({"X"}), error \in SuppliedErrors :
          /\ ops' = [ops EXCEPT ![o] = V1Start(_hooks, "v1.triggerError", arguments, error)]
          /\ _hooks' = V1SortHooks(_hooks, ParseArguments(arguments).name)
    /\ UNCHANGED wrap

\* triggerSync([thisPtr,] name, arg1..argN)
V1TriggerSyncUnchecked(o) ==
    /\ Standalone(o)
    /\ \E arguments \in CallArguments({"X"}) :
          /\ ops' = [ops EXCEPT ![o] =
                        V1Start(_hooks, "v1.triggerSync", arguments, Undefined)]
          /\ _hooks' = V1SortHooks(_hooks, ParseArguments(arguments).name)
    /\ UNCHANGED wrap

V1TriggerSync(o) ==
    /\ Standalone(o)
    /\ \E arguments \in CallArguments({"X"}) :
          IF V1AsyncRegistered(_hooks, ParseArguments(arguments).name)
          THEN /\ ops' = [ops EXCEPT ![o] = V1Refused("v1.triggerSync", arguments)]
               /\ _hooks' = _hooks
          ELSE /\ ops' = [ops EXCEPT ![o] =
                             V1Start(_hooks, "v1.triggerSync", arguments, Undefined)]
               /\ _hooks' = V1SortHooks(_hooks, ParseArguments(arguments).name)
    /\ UNCHANGED wrap

\* triggerErrorSync([thisPtr,] name, error)
V1TriggerErrorSync(o) ==
    /\ Standalone(o)
    /\ \E arguments \in CallArguments({"X"}), error \in SuppliedErrors :
          IF V1AsyncRegistered(_hooks, ParseArguments(arguments).name)
          THEN /\ ops' = [ops EXCEPT ![o] = V1Refused("v1.triggerErrorSync", arguments)]
               /\ _hooks' = _hooks
          ELSE /\ ops' = [ops EXCEPT ![o] =
                             V1Start(_hooks, "v1.triggerErrorSync", arguments, error)]
               /\ _hooks' = V1SortHooks(_hooks, ParseArguments(arguments).name)
    /\ UNCHANGED wrap

\* The invocations of one call are bounded as in the promise API.
V1MayInvoke(op, h) ==
    Len(op.calls) < 2 * Len(V1HookArray(op, h)) - 1 + MaxRepeatedCalls

\* Whether the next call of runNextHook invokes a handler.
V1InvokesHandler(op, h) ==
    /\ ~Truthy(op.error)
    /\ op.curHookNum >= 0
    /\ op.curHookNum < Len(V1HookArray(op, h))

V1RunNextHook(o) ==
    /\ ops[o].engine = "v1"
    /\ ops[o].pc = "runNextHook"
    /\ V1InvokesHandler(ops[o], _hooks) => V1MayInvoke(ops[o], _hooks)
    /\ \E out \in V1HandlerOutcomes :
          /\ V1InvokesHandler(ops[o], _hooks) =>
                  V1Does(V1HookArray(ops[o], _hooks)[ops[o].curHookNum + 1], out)
          /\ ops' = [ops EXCEPT ![o] = V1RunNextHookStep(ops[o], _hooks, out)]
    /\ UNCHANGED <<_hooks, wrap>>

V1RunNextErrorHook(o) ==
    /\ ops[o].engine = "v1"
    /\ ops[o].pc = "runNextErrorHook"
    /\ ops[o].curHookNum >= 0 => V1MayInvoke(ops[o], _hooks)
    /\ \E out \in V1HandlerOutcomes :
          /\ ops[o].curHookNum >= 0 =>
                V1Does(V1HookArray(ops[o], _hooks)[ops[o].curHookNum + 1], out)
          /\ ops' = [ops EXCEPT ![o] =
                        IF ops[o].api \in V1ErrorApis
                        THEN V1TriggerErrorStep(ops[o], _hooks, out)
                        ELSE V1RunNextErrorHookStep(ops[o], _hooks, out)]
    /\ UNCHANGED <<_hooks, wrap>>

\* next is called after the handler that got it has returned.
V1NextCalled(o) ==
    /\ ops[o].engine = "v1"
    /\ \E p \in ops[o].inflight :
          \/ /\ p[1] = "h"
             /\ \E e \in NextErrors :
                   ops' = [ops EXCEPT ![o] =
                              [ops[o] EXCEPT !.inflight = @ \ {p},
                                             !.fails = IF Truthy(e)
                                                       THEN Append(@, [idx |-> p[2], val |-> e,
                                                                       how |-> "next"])
                                                       ELSE @,
                                             !.pc = "runNextHook", !.error = e]]
          \/ /\ p[1] = "e"
             /\ ops' = [ops EXCEPT ![o] = [ops[o] EXCEPT !.inflight = @ \ {p},
                                                         !.pc = "runNextErrorHook"]]
    /\ UNCHANGED <<_hooks, wrap>>

-----------------------------------------------------------------------------
\* Registrations that are refused

TooManyArguments == ErrorOf("Too many arguments to addHook()")

\* hook(name, [priority,] handler, errorHandler, more): _addHook shifts the
\* name, the priority, the handler and the error handler off its arguments and
\* throws when one is left, before it reads this._hooks.
HookRefusedAfterPush(o, names) ==
    /\ Free(ops[o])
    /\ \E name \in names :
          /\ ops' = [ops EXCEPT ![o] = [IdleOp EXCEPT !.api = "hook", !.name = name,
                                                      !.pc = "threw",
                                                      !.value = TooManyArguments]]
          /\ _hooks' = IF TotalHooks < MaxFrameHooks
                       THEN AddHookTo(_hooks, name, DefaultPriority, FALSE)
                       ELSE _hooks
    /\ UNCHANGED wrap

HookRefused(o, names) ==
    /\ Free(ops[o])
    /\ \E name \in names :
          ops' = [ops EXCEPT ![o] = [IdleOp EXCEPT !.api = "hook", !.name = name,
                                                  !.pc = "threw",
                                                  !.value = TooManyArguments]]
    /\ UNCHANGED <<_hooks, wrap>>

-----------------------------------------------------------------------------
\* Specifications

Init ==
    /\ _hooks = [n \in {} |-> EmptyNameHooks]
    /\ ops = [o \in OpIds |-> IdleOp]
    /\ wrap = IdleWrap

\* The promise-returning operations on one name.
Next ==
    \/ AddHook({"X"}, Priorities)
    \/ Trigger("t1")
    \/ TriggerError("t1")
    \/ MixinTriggerError("t1")
    \/ RunNextHook("t1")
    \/ RunNextErrorHook("t1")
    \/ SettleHandler("t1")
    \/ SettleErrorHandler("t1")

Spec == Init /\ [][Next]_vars

\* The synchronous operations on one name.
NextSync ==
    \/ AddHook({"X"}, Priorities)
    \/ TriggerSync("t1")
    \/ TriggerErrorSync("t1")
    \/ MixinTriggerErrorSync("t1")
    \/ RunNextHook("t1")
    \/ RunNextErrorHook("t1")
    \/ SettleSync("t1")

SpecSync == Init /\ [][NextSync]_vars

\* triggerWrap over the names pre-X, X and post-X.  The hooks are registered
\* without a priority: hook(name, handler, errorHandler).
NextWrap ==
    \/ AddHook(Names, {DefaultPriority})
    \/ TriggerWrap("t1")
    \/ MixinTriggerWrap("t1")
    \/ WrapRunMain("t1")
    \/ WrapRunBody("t1")
    \/ SettleBody
    \/ WrapRunPost("t1")
    \/ WrapResolve("t1")
    \/ WrapCatch("t1")
    \/ WrapCleanupPre("t1")
    \/ WrapReject("t1")
    \/ WrapCleanupFailed("t1")
    \/ RunNextHook("t1")
    \/ RunNextErrorHook("t1")
    \/ SettleHandler("t1")
    \/ SettleErrorHandler("t1")

SpecWrap == Init /\ [][NextWrap]_vars

\* The promise-returning operations, with the steps the program takes by
\* itself, for at most MaxLiveHooks hooks: synchronous code runs on, the callbacks of settled promises are
\* run by the event loop, and every promise returned by a handler, an
\* error-cleanup handler or fn settles.  Registering hooks and starting
\* operations is up to the caller.
Progress ==
    \/ RunNextHook("t1")
    \/ RunNextErrorHook("t1")
    \/ SettleHandler("t1")
    \/ SettleErrorHandler("t1")
    \/ SettleBody
    \/ WrapRunMain("t1")
    \/ WrapRunBody("t1")
    \/ WrapRunPost("t1")
    \/ WrapResolve("t1")
    \/ WrapCatch("t1")
    \/ WrapCleanupPre("t1")
    \/ WrapReject("t1")
    \/ WrapCleanupFailed("t1")

NextLive ==
    \/ (TotalHooks < MaxLiveHooks /\ AddHook(Names, {DefaultPriority}))
    \/ Trigger("t1")
    \/ TriggerError("t1")
    \/ MixinTriggerError("t1")
    \/ TriggerWrap("t1")
    \/ MixinTriggerWrap("t1")
    \/ Progress

SpecLive == Init /\ [][NextLive]_vars /\ WF_vars(Progress)

\* Two triggers in flight at once, for at most MaxConcurrentHooks hooks: each
\* call of _trigger has its own hookArray, curHookNum and curHookResults, and
\* the promises returned by their handlers settle in any order.
NextConcurrent ==
    \/ (TotalHooks < MaxConcurrentHooks /\ AddHook({"pre-X", "X"}, {DefaultPriority}))
    \/ \E o \in OpIds : Trigger(o)
    \/ \E o \in OpIds : RunNextHook(o)
    \/ \E o \in OpIds : RunNextErrorHook(o)
    \/ \E o \in OpIds : SettleHandler(o)
    \/ \E o \in OpIds : SettleErrorHandler(o)

SpecConcurrent == Init /\ [][NextConcurrent]_vars

\* trigger and then triggerSync of the same name with the same arguments, on a
\* registry of synchronous handlers that does not change in between.
NextEquivalence ==
    \/ (ops["t1"].pc = "idle" /\ AddHook({"X"}, Priorities))
    \/ (ops["t1"].pc = "idle" /\ TriggerCall("t1", {"X"}))
    \/ (/\ ops["t1"].pc \in {"resolved", "rejected"}
        /\ ops["t2"].pc = "idle"
        /\ TriggerSyncCall("t2", {"X"})
        /\ ops'["t2"].thisPtr = ops["t1"].thisPtr
        /\ ops'["t2"].args = ops["t1"].args)
    \/ \E o \in OpIds : RunNextPureHook(o)
    \/ \E o \in OpIds : RunNextPlainErrorHook(o)

SpecEquivalence == Init /\ [][NextEquivalence]_vars

\* triggerSync and triggerErrorSync with handlers that return deferred values
NextDeferred ==
    \/ (TotalHooks < MaxDeferredHooks /\ AddHook({"X"}, {DefaultPriority}))
    \/ TriggerSync("t1")
    \/ TriggerErrorSync("t1")
    \/ RunNextHook("t1")
    \/ RunNextErrorHook("t1")
    \/ SettleSync("t1")

SpecDeferred == Init /\ [][NextDeferred]_vars

\* Calls of both APIs with and without a receiver, with and without
\* arguments for the hooks.
NextCalls ==
    \/ AddHook({"X"}, {DefaultPriority})
    \/ TriggerCall("t1", {"X"})
    \/ TriggerSyncCall("t1", {"X"})
    \/ TriggerErrorCall("t1", {"X"}, "async")
    \/ TriggerErrorCall("t1", {"X"}, "sync")
    \/ MixinTriggerCall("t1", {"X"}, "async")
    \/ MixinTriggerCall("t1", {"X"}, "sync")
    \/ MixinTriggerError("t1")
    \/ MixinTriggerErrorSync("t1")
    \/ RunNextHook("t1")
    \/ RunNextErrorHook("t1")
    \/ SettleHandler("t1")
    \/ SettleErrorHandler("t1")
    \/ SettleSync("t1")

SpecCalls == Init /\ [][NextCalls]_vars

\* trigger of a name, repeated with the same arguments on a registry of
\* synchronous handlers that does not change after the first trigger.
NextRepeated ==
    \/ (ops["t1"].pc = "idle" /\ AddHook({"X"}, Priorities))
    \/ (ops["t1"].pc = "idle" /\ TriggerCall("t1", {"X"}))
    \/ (/\ ops["t1"].pc \in {"resolved", "rejected"}
        /\ TriggerCall("t2", {"X"})
        /\ ops'["t2"].thisPtr = ops["t1"].thisPtr
        /\ ops'["t2"].args = ops["t1"].args)
    \/ \E o \in OpIds : RunNextPureHook(o)
    \/ \E o \in OpIds : RunNextPlainErrorHook(o)

SpecRepeated == Init /\ [][NextRepeated]_vars

\* trigger and triggerSync of names with and without a HookSet
NextUnknown ==
    \/ (TotalHooks < MaxOtherHooks /\ AddHook({"X"}, Priorities))
    \/ TriggerCall("t1", Names)
    \/ TriggerSyncCall("t1", Names)
    \/ MixinTriggerCall("t1", Names, "async")
    \/ MixinTriggerCall("t1", Names, "sync")
    \/ RunNextHook("t1")
    \/ RunNextErrorHook("t1")
    \/ SettleHandler("t1")
    \/ SettleSync("t1")

SpecUnknown == Init /\ [][NextUnknown]_vars

\* trigger of a name with hooks registered with hook and with hookAsync
NextHookAsync ==
    \/ (TotalHooks < MaxCallbackHooks /\ AddHook({"X"}, {DefaultPriority}))
    \/ (TotalHooks < MaxCallbackHooks /\ HookAsync({"X"}, {DefaultPriority}))
    \/ TriggerCall("t1", {"X"})
    \/ RunNextHook("t1")
    \/ RunNextErrorHook("t1")
    \/ SettleHandler("t1")
    \/ SettleErrorHandler("t1")
    \/ CallbackCalled("t1")
    \/ ThrowsBeforeCallback("t1")

SpecHookAsync == Init /\ [][NextHookAsync]_vars

\* triggerAsync and triggerErrorAsync, one call at a time; the steps of the
\* program and the settling of the promises returned to it are not delayed
\* for ever.
ProgressAsync ==
    \/ RunNextHook("t1")
    \/ RunNextErrorHook("t1")
    \/ SettleHandler("t1")
    \/ SettleErrorHandler("t1")
    \/ CompletionCalled("t1")

CallOver(op) == op.pc \in {"idle", "abandoned"} \/ op.completions # <<>>

NextTriggerAsync ==
    \/ (TotalHooks < MaxAsyncHooks /\ AddHook({"X"}, {DefaultPriority}))
    \/ (CallOver(ops["t1"]) /\ TriggerAsync("t1"))
    \/ (CallOver(ops["t1"]) /\ TriggerErrorAsync("t1"))
    \/ ProgressAsync

SpecTriggerAsync == Init /\ [][NextTriggerAsync]_vars /\ WF_vars(ProgressAsync)

\* The callback API: registration between calls, one call at a time.
NextV1 ==
    \/ (Free(ops["t1"]) /\ V1AddHook(FALSE, {"X"}, {DefaultPriority}))
    \/ (Free(ops["t1"]) /\ V1AddHook(TRUE, {"X"}, {DefaultPriority}))
    \/ V1Trigger("t1")
    \/ V1TriggerError("t1")
    \/ V1TriggerSync("t1")
    \/ V1TriggerErrorSync("t1")
    \/ V1RunNextHook("t1")
    \/ V1RunNextErrorHook("t1")
    \/ V1NextCalled("t1")

SpecV1 == Init /\ [][NextV1]_vars

\* The synchronous calls of the callback API.
NextV1Sync ==
    \/ (TotalHooks < MaxV1SyncHooks /\ V1AddHook(FALSE, {"X"}, {DefaultPriority}))
    \/ (TotalHooks < MaxV1SyncHooks /\ V1AddHook(TRUE, {"X"}, {DefaultPriority}))
    \/ V1TriggerSync("t1")
    \/ V1TriggerErrorSync("t1")
    \/ V1RunNextHook("t1")
    \/ V1RunNextErrorHook("t1")

SpecV1Sync == Init /\ [][NextV1Sync]_vars

\* triggerWrap called with a receiver and with arguments for the hooks and the
\* body, for at most MaxWrapCallHooks hooks.
NextWrapCalls ==
    \/ (TotalHooks < MaxWrapCallHooks /\ AddHook(Names, {DefaultPriority}))
    \/ TriggerWrapCall("t1")
    \/ MixinTriggerWrapCall("t1")
    \/ WrapRunMain("t1")
    \/ WrapRunBody("t1")
    \/ SettleBody
    \/ WrapRunPost("t1")
    \/ WrapResolve("t1")
    \/ WrapCatch("t1")
    \/ WrapCleanupPre("t1")
    \/ WrapReject("t1")
    \/ WrapCleanupFailed("t1")
    \/ RunNextHook("t1")
    \/ RunNextErrorHook("t1")
    \/ SettleHandler("t1")
    \/ SettleErrorHandler("t1")

SpecWrapCalls == Init /\ [][NextWrapCalls]_vars

\* Registrations with priorities interleaved with trigger, triggerSync and
\* triggerError on one name, for at most MaxSortedHooks hooks; a handler or
\* the caller may register hooks between any two steps of a run.
NextSorted ==
    \/ (TotalHooks < MaxSortedHooks /\ AddHook({"X"}, Priorities))
    \/ Trigger("t1")
    \/ TriggerSync("t1")
    \/ TriggerError("t1")
    \/ RunNextPureHook("t1")
    \/ RunNextPlainErrorHook("t1")

SpecSorted == Init /\ [][NextSorted]_vars

\* Registrations, accepted and refused, and triggers over several names, for
\* at most MaxFrameHooks hooks.
NextFrame ==
    \/ (TotalHooks < MaxFrameHooks /\ AddHook(Names, {DefaultPriority}))
    \/ HookRefused("t2", Names)
    \/ Trigger("t1")
    \/ TriggerSync("t1")
    \/ TriggerError("t1")
    \/ RunNextPureHook("t1")
    \/ RunNextPlainErrorHook("t1")

SpecFrame == Init /\ [][NextFrame]_vars

-----------------------------------------------------------------------------
\* Properties

Settled(op) == op.pc \in {"resolved", "rejected", "returned", "threw"}

ErrorApis == {"triggerError", "mixin.triggerError", "triggerErrorSync",
              "mixin.triggerErrorSync"}

\* The positions of the calls of one kind in a call log.
CallsOfKind(calls, kind) == {k \in 1..Len(calls) : calls[k].kind = kind}

\* The snapshot indexes whose entry has an error-cleanup handler, below i.
CleanupIndexesBelow(op, i) ==
    {j \in 0..(i - 1) : op.hookArray[j + 1].errorHandler}

\* The error-cleanup calls of a log visit strictly descending indexes.
CleanupDescending(calls) ==
    \A k, l \in CallsOfKind(calls, "e") : k < l => calls[k].idx > calls[l].idx

\* (priority ascending, hookNumber ascending)
KeyLess(a, b) ==
    \/ a.priority < b.priority
    \/ a.priority = b.priority /\ a.hookNumber < b.hookNumber

\* The registered entry of a name with a given hookNumber.
EntryOf(name, n) ==
    CHOOSE e \in {_hooks[name].hooks[k] : k \in 1..Len(_hooks[name].hooks)} :
        e.hookNumber = n

\* C1: a trigger in which every handler succeeds invokes the handlers, and
\* resolves with their results, in ascending priority order, equal priorities
\* in registration order; every hook registered before the trigger is there.
C1_PriorityOrder ==
    \A o \in OpIds :
       LET op == ops[o]
           results == op.curHookResults
       IN (op.api = "trigger" /\ op.pc = "resolved" /\ op.fails = <<>>) =>
             /\ Len(results) = Len(op.hookArray)
             /\ Len(op.calls) = Len(results)
             /\ \A i \in 1..Len(results) :
                   /\ op.calls[i].kind = "h"
                   /\ op.calls[i].hookNumber = results[i]
             /\ {results[i] : i \in 1..Len(results)} = 0..(Len(results) - 1)
             /\ \A i, j \in 1..Len(results) :
                   i < j => KeyLess(EntryOf(op.name, results[i]),
                                    EntryOf(op.name, results[j]))

\* A trigger resolved with three results: the two hooks of priority 0 in
\* registration order, before the hook of priority 1 that was registered first.
C1_Witness ==
    /\ ops["t1"].api = "trigger"
    /\ ops["t1"].pc = "resolved"
    /\ ops["t1"].fails = <<>>
    /\ ops["t1"].curHookResults = <<1, 2, 0>>

\* C2: in trigger at most one handler is in flight; a pending promise belongs
\* to the handler invoked last, so that no handler is invoked while an earlier
\* one has not returned and resolved; handlers are invoked at 0, 1, 2, ...
C2_OneAtATime ==
    \A o \in OpIds :
       LET op == ops[o]
       IN op.engine = "async" =>
             /\ Cardinality(op.inflight) <= 1
             /\ \A p \in op.inflight :
                   /\ op.pc = "await"
                   /\ op.calls # <<>>
                   /\ op.calls[Len(op.calls)].kind = p[1]
                   /\ op.calls[Len(op.calls)].idx = p[2]
             /\ \A k, l \in CallsOfKind(op.calls, "h") :
                   k < l => op.calls[k].idx < op.calls[l].idx

\* The second handler of a trigger returned a promise that is pending, after
\* the first one completed.
C2_Witness ==
    /\ ops["t1"].api = "trigger"
    /\ ops["t1"].pc = "await"
    /\ \E p \in ops["t1"].inflight : p[1] = "h" /\ p[2] = 1
    /\ Len(ops["t1"].curHookResults) = 1

\* C3: when the handler at index i fails during trigger, the error-cleanup
\* handlers of the entries i-1..0 that have one are invoked once each in
\* descending order, one after the other, never that of entry i or of a later
\* entry, and they have all been invoked when the trigger settles.
C3_UnwindBelowFailure ==
    \A o \in OpIds :
       LET op == ops[o]
       IN (op.api = "trigger" /\ op.fails # <<>>) =>
             LET i == op.fails[1].idx
             IN /\ \A k \in CallsOfKind(op.calls, "e") : op.calls[k].idx < i
                /\ CleanupDescending(op.calls)
                /\ Cardinality(op.inflight) <= 1
                /\ Settled(op) =>
                      {op.calls[k].idx : k \in CallsOfKind(op.calls, "e")}
                          = CleanupIndexesBelow(op, i)

\* C4: the value trigger rejects with, and triggerSync throws, is the value the
\* failing handler threw or rejected with, whatever that value is.
C4_OriginalFailureValue ==
    \A o \in OpIds :
       LET op == ops[o]
       IN (op.api \in {"trigger", "triggerSync"} /\ op.fails # <<>> /\ Settled(op)) =>
             /\ op.pc \in {"rejected", "threw"}
             /\ op.value = op.fails[1].val

\* C5: once a handler has thrown, no later handler of the snapshot is invoked
\* and the operation does not end with a result list.
C5_ThrowEndsForwardRun ==
    \A o \in OpIds :
       LET op == ops[o]
       IN op.api \in {"trigger", "triggerSync"} =>
             \A f \in 1..Len(op.fails) :
                op.fails[f].how = "throw" =>
                   /\ \A k \in CallsOfKind(op.calls, "h") :
                         op.calls[k].idx <= op.fails[f].idx
                   /\ op.pc \notin {"resolved", "returned"}

\* C6: a trigger invokes handlers and error-cleanup handlers of its snapshot
\* only, each at its place in the snapshot, and the snapshot is the sorted
\* list of the hooks registered before the trigger started: a hook registered
\* while the trigger is in flight (its hookNumber is the snapshot's length or
\* more) is never invoked by it.
C6_SnapshotIsolation ==
    \A o \in OpIds :
       LET op == ops[o]
           n == Len(op.hookArray)
       IN /\ \A k \in 1..Len(op.calls) :
                /\ op.calls[k].idx \in 0..(n - 1)
                /\ op.calls[k].hookNumber < n
                /\ op.calls[k].hookNumber = op.hookArray[op.calls[k].idx + 1].hookNumber
          /\ {op.hookArray[k].hookNumber : k \in 1..n} = 0..(n - 1)
          /\ \A k, l \in 1..n : k < l => KeyLess(op.hookArray[k], op.hookArray[l])
          /\ Len(op.curHookResults) <= n

\* A trigger has run through its snapshot while the registry of its name
\* already holds a hook registered after it started.
C6_Witness ==
    /\ ops["t1"].api = "trigger"
    /\ ops["t1"].pc = "runNextHook"
    /\ ops["t1"].curHookNum = Len(ops["t1"].hookArray)
    /\ Len(ops["t1"].calls) = 2
    /\ Len(_hooks[ops["t1"].name].hooks) > Len(ops["t1"].hookArray)

\* C7: when trigger has rejected, no error-cleanup handler is pending and, for
\* the failure at index i, the error-cleanup handler of every entry below i
\* that has one has been invoked.
C7_RejectAfterCleanup ==
    \A o \in OpIds :
       LET op == ops[o]
       IN (op.api = "trigger" /\ op.pc = "rejected") =>
             /\ op.inflight = {}
             /\ op.fails # <<>>
             /\ \A f \in 1..Len(op.fails) :
                   CleanupIndexesBelow(op, op.fails[f].idx)
                      \subseteq {op.calls[k].idx : k \in CallsOfKind(op.calls, "e")}

\* A trigger rejected after the third handler failed and two error-cleanup
\* handlers ran.
C7_Witness ==
    /\ ops["t1"].api = "trigger"
    /\ ops["t1"].pc = "rejected"
    /\ Len(ops["t1"].fails) = 1
    /\ ops["t1"].fails[1].idx = 2
    /\ Cardinality(CallsOfKind(ops["t1"].calls, "e")) = 2

\* C8: triggerError(name, err) invokes error-cleanup handlers only, passing err
\* to each, in descending order, and has invoked that of every entry that has
\* one when its promise resolves.
C8_TriggerErrorRunsAllCleanups ==
    \A o \in OpIds :
       LET op == ops[o]
       IN op.api \in {"triggerError", "mixin.triggerError"} =>
             /\ \A k \in 1..Len(op.calls) :
                   /\ op.calls[k].kind = "e"
                   /\ op.calls[k].error = op.supplied
             /\ CleanupDescending(op.calls)
             /\ Cardinality(op.inflight) <= 1
             /\ op.pc # "rejected"
             /\ op.pc = "resolved" =>
                   {op.calls[k].idx : k \in 1..Len(op.calls)}
                       = CleanupIndexesBelow(op, Len(op.hookArray))

\* C9: triggerError and triggerErrorSync, of the constructor API and of the
\* mixin API, never invoke a forward handler, whatever error is supplied.
C9_NoForwardHandler ==
    \A o \in OpIds :
       ops[o].api \in ErrorApis => CallsOfKind(ops[o].calls, "h") = {}

\* The place of a stage in triggerWrap.
StageRank(name) ==
    CASE name = "pre-X" -> 1
      [] name = "X" -> 2
      [] name = "body" -> 3
      [] name = "post-X" -> 4

\* The entries of a trace that start a stage, invoke a handler or are the body.
Forward(trace) == {k \in 1..Len(trace) : trace[k].kind \in {"s", "h", "b"}}

\* The handlers of a stage are invoked at 0, 1, ..., all of them.
StageComplete(trace, name) ==
    \E k \in 1..Len(trace) :
       /\ trace[k].name = name /\ trace[k].kind = "s"
       /\ \A i \in 1..trace[k].idx :
             /\ k + i <= Len(trace)
             /\ trace[k + i].name = name
             /\ trace[k + i].kind = "h"
             /\ trace[k + i].idx = i - 1

\* C10: when triggerWrap succeeds it has run all pre-X handlers, then all X
\* handlers, then the body, then all post-X handlers, and no error-cleanup
\* handler; while no stage has failed, a stage is entered only after the
\* stages before it have completed.
C10_WrapSuccessOrder ==
    LET trace == WrapTrace("t1")
    IN /\ (wrap.pc \in {"hooks", "bodyDone", "awaitBody"} \/
           (wrap.pc = "resolved" /\ wrap.stage = "post")) =>
             /\ \A k, l \in Forward(trace) :
                   k < l => /\ StageRank(trace[k].name) <= StageRank(trace[l].name)
                            /\ (StageRank(trace[k].name) < StageRank(trace[l].name)
                                  /\ trace[k].kind = "s")
                               => StageComplete(trace, trace[k].name)
             /\ \A p \in ops["t1"].inflight :
                   /\ trace[Len(trace)].name = ops["t1"].name
                   /\ trace[Len(trace)].kind = p[1]
                   /\ trace[Len(trace)].idx = p[2]
             /\ \A k, l \in 1..Len(trace) :
                   (trace[k].kind = "s" /\ trace[l].kind = "s" /\ k # l)
                      => trace[k].name # trace[l].name
       /\ (wrap.pc = "resolved" /\ wrap.stage = "post") =>
             /\ \A k \in 1..Len(trace) : trace[k].kind # "e"
             /\ StageComplete(trace, "pre-X")
             /\ StageComplete(trace, "X")
             /\ StageComplete(trace, "post-X")
             /\ Cardinality({k \in 1..Len(trace) : trace[k].kind = "b"}) = 1

\* A triggerWrap succeeded after one handler ran in each of its three stages.
C10_Witness ==
    /\ wrap.pc = "resolved"
    /\ wrap.stage = "post"
    /\ \A name \in Names :
          \E k \in 1..Len(wrap.log) : wrap.log[k].name = name /\ wrap.log[k].kind = "h"

\* The error-cleanup calls of one name in a trace.
CleanupCalls(trace, name) ==
    {k \in 1..Len(trace) : trace[k].kind = "e" /\ trace[k].name = name}

\* The body was invoked or a post-X trigger was started.
RanBodyOrPost(trace) ==
    \E k \in 1..Len(trace) : trace[k].kind = "b" \/ trace[k].name = "post-X"

\* The snapshot indexes that were given to a trigger of a name: the length
\* recorded when its first trigger started.
StageLength(trace, name) ==
    LET starts == {k \in 1..Len(trace) : trace[k].kind = "s" /\ trace[k].name = name}
    IN IF starts = {} THEN 0
       ELSE trace[CHOOSE k \in starts : \A l \in starts : k <= l].idx

\* The hookNumbers below n of the entries of a name that have an error-cleanup
\* handler.
CleanupNumbersBelow(name, n) ==
    IF name \notin DOMAIN _hooks THEN {}
    ELSE {_hooks[name].hooks[k].hookNumber : k \in
             {j \in 1..Len(_hooks[name].hooks) :
                 /\ _hooks[name].hooks[j].errorHandler
                 /\ _hooks[name].hooks[j].hookNumber < n}}

\* Every error-cleanup handler of the snapshot of a name was invoked.
AllCleanedUp(trace, name) ==
    CleanupNumbersBelow(name, StageLength(trace, name))
        \subseteq {trace[k].hookNumber : k \in CleanupCalls(trace, name)}

\* C11: when the trigger of X rejects inside triggerWrap, the body and the
\* post-X stage never run, error-cleanup of X comes before that of pre-X, and
\* the promise of triggerWrap is settled only by rejecting with the error of
\* the trigger, after every pre-X error-cleanup handler was invoked.
C11_MainFailureUnwinds ==
    LET trace == WrapTrace("t1")
    IN wrap.failedStage = "main" =>
          /\ ~RanBodyOrPost(trace)
          /\ \A k \in CleanupCalls(trace, "X"), l \in CleanupCalls(trace, "pre-X") : k < l
          /\ wrap.pc \in {"cleanup", "rejected"}
          /\ wrap.pc = "rejected" =>
                /\ wrap.value = wrap.error
                /\ AllCleanedUp(trace, "pre-X")

\* The error-cleanup calls of one name visit strictly descending indexes.
StageCleanupDescending(trace, name) ==
    \A k, l \in CleanupCalls(trace, name) : k < l => trace[k].idx > trace[l].idx

\* The failures of handlers of one stage (or of the body) in a failure log.
FailsOf(fails, name) == {f \in 1..Len(fails) : fails[f].name = name}

\* The first failure of a stage.
FirstFail(fails, name) ==
    fails[CHOOSE f \in FailsOf(fails, name) : \A g \in FailsOf(fails, name) : f <= g]

\* The snapshot indexes below i that were given an error-cleanup call.
CleanedBelow(trace, name, i) ==
    CleanupNumbersBelow(name, StageLength(trace, name)) \cap
       {trace[k].hookNumber : k \in {j \in 1..Len(trace) :
                                       /\ trace[j].name = name
                                       /\ trace[j].kind = "h"
                                       /\ trace[j].idx < i}}
          \subseteq {trace[k].hookNumber : k \in CleanupCalls(trace, name)}

\* C12: when a post-X handler fails inside triggerWrap, the error-cleanup
\* handlers of the post-X entries before the failing one run first, then those
\* of the X entries, then those of the pre-X entries, each stage in descending
\* order; no error-cleanup handler of the failing entry or of a later post-X
\* entry is invoked; the promise of triggerWrap does not resolve, and when it
\* rejects it does so with the error of the handler, all cleanup being done.
C12_PostFailureUnwinds ==
    LET trace == WrapTrace("t1")
        fails == WrapFails("t1")
    IN FailsOf(fails, "post-X") # {} =>
          LET failure == FirstFail(fails, "post-X")
          IN /\ \A k \in CleanupCalls(trace, "post-X") : trace[k].idx < failure.idx
             /\ \A name \in Names : StageCleanupDescending(trace, name)
             /\ \A k \in CleanupCalls(trace, "post-X"), l \in CleanupCalls(trace, "X") : k < l
             /\ \A k \in CleanupCalls(trace, "X"), l \in CleanupCalls(trace, "pre-X") : k < l
             /\ wrap.pc # "resolved"
             /\ wrap.pc = "rejected" =>
                   /\ wrap.value = failure.val
                   /\ CleanedBelow(trace, "post-X", failure.idx)
                   /\ AllCleanedUp(trace, "X")
                   /\ AllCleanedUp(trace, "pre-X")

\* C13: when the body fails, the post-X stage never runs, every X
\* error-cleanup call comes before every pre-X one and each stage is cleaned
\* up in descending order, only error-cleanup handlers are invoked after the
\* body, and the promise of triggerWrap does not resolve; when it rejects it
\* does so with the error of the body, after the error-cleanup handlers of
\* all X entries and of all pre-X entries were invoked.
C13_BodyFailureUnwinds ==
    LET trace == WrapTrace("t1")
        fails == WrapFails("t1")
    IN FailsOf(fails, "body") # {} =>
          LET failure == FirstFail(fails, "body")
              body == CHOOSE k \in 1..Len(trace) : trace[k].kind = "b"
          IN /\ \A k \in 1..Len(trace) : trace[k].name # "post-X"
             /\ \A k \in (body + 1)..Len(trace) : trace[k].kind \in {"s", "e"}
             /\ \A name \in Names : StageCleanupDescending(trace, name)
             /\ \A k \in CleanupCalls(trace, "X"), l \in CleanupCalls(trace, "pre-X") : k < l
             /\ wrap.pc # "resolved"
             /\ wrap.pc = "rejected" =>
                   /\ wrap.value = failure.val
                   /\ AllCleanedUp(trace, "X")
                   /\ AllCleanedUp(trace, "pre-X")

\* C14: when a pre-X handler fails, nothing of X, of post-X or the body is
\* ever invoked; only error-cleanup handlers of pre-X entries before the
\* failing one run, in descending order; the promise of triggerWrap does not
\* resolve and, when it rejects, it does so with the error of the handler
\* after those error-cleanup handlers were invoked.
C14_PreFailureUnwinds ==
    LET trace == WrapTrace("t1")
        fails == WrapFails("t1")
    IN FailsOf(fails, "pre-X") # {} =>
          LET failure == FirstFail(fails, "pre-X")
          IN /\ \A k \in 1..Len(trace) : trace[k].name = "pre-X"
             /\ \A k \in CleanupCalls(trace, "pre-X") : trace[k].idx < failure.idx
             /\ StageCleanupDescending(trace, "pre-X")
             /\ wrap.pc # "resolved"
             /\ wrap.pc = "rejected" =>
                   /\ wrap.value = failure.val
                   /\ CleanedBelow(trace, "pre-X", failure.idx)

\* C15: when every stage succeeded, the promise of triggerWrap resolves with
\* the value the body returned or its promise resolved with.
C15_WrapResolvesWithBodyValue ==
    (wrap.pc = "resolved" /\ wrap.stage = "post") =>
       /\ wrap.result.type = "plain"
       /\ wrap.result = PlainValue(wrap.bodyResult)

\* C16: once an error-cleanup handler of trigger or triggerError has thrown,
\* or its promise has rejected, the failure is an uncaught exception outside
\* the promise; the promise of the operation is neither resolved nor
\* rejected, nothing of the operation is pending, and the operation takes no
\* further step: no other error-cleanup handler is invoked, nothing is retried.
C16_CleanupFailureIsFatal ==
    [][\A o \in OpIds :
          LET before == ops[o]
              after == ops'[o]
          IN /\ (after.engine = "async" /\ after.uncaught # {}) =>
                   /\ ~Settled(after)
                   /\ ~Active(after)
                   /\ after.inflight = {}
                   /\ after.uncaught \subseteq CleanupFailValues
                   /\ after.calls # <<>>
                   /\ after.calls[Len(after.calls)].kind = "e"
             /\ (before.engine = "async" /\ before.uncaught # {} /\ after # before) =>
                   (after.calls = <<>> /\ after.uncaught = {})]_vars

\* The third handler of a trigger failed, then the error-cleanup handler of
\* the second entry failed; the first entry has an error-cleanup handler,
\* which was not invoked.
C16_Witness ==
    /\ ops["t1"].api = "trigger"
    /\ ops["t1"].uncaught # {}
    /\ ops["t1"].curHookNum = 0
    /\ Len(ops["t1"].calls) = 4
    /\ ops["t1"].hookArray[1].errorHandler

\* C17: what trigger rejects with, and what triggerSync throws to its caller,
\* is never the failure of an error-cleanup handler.
C17_UnwindFailureNotDelivered ==
    \A o \in OpIds :
       LET op == ops[o]
       IN (op.api \in {"trigger", "triggerSync"} /\ op.pc \in {"rejected", "threw"}) =>
             /\ op.fails # <<>>
             /\ op.value \notin (op.unwindFailures \cup op.uncaught)

\* The promise of triggerWrap is pending.
WrapPending == wrap.pc \notin {"idle", "resolved", "rejected"}

\* An error-cleanup handler of the running operation has failed.
CleanupFailed(o) == ops[o].pc = "abandoned"

\* C18, as claimed: the promise of every trigger, triggerError and
\* triggerWrap call is eventually resolved or rejected, given that every
\* promise returned to it settles.
C18_EventuallySettles ==
    /\ \A o \in OpIds : Active(ops[o]) ~> Settled(ops[o])
    /\ WrapPending ~> ~WrapPending

\* C18, amended: the promise is eventually resolved or rejected unless an
\* error-cleanup handler invoked by the call throws or its promise rejects.
C18_SettlesUnlessCleanupFails ==
    /\ \A o \in OpIds : Active(ops[o]) ~> (Settled(ops[o]) \/ CleanupFailed(o))
    /\ WrapPending ~> (~WrapPending \/ CleanupFailed("t1"))

\* A triggerWrap whose body failed has rejected after an error-cleanup handler
\* returned a promise that resolved.
C18_Witness ==
    /\ wrap.pc = "rejected"
    /\ wrap.failedStage = "body"
    /\ \E k \in 1..Len(wrap.log) : wrap.log[k].kind = "e"
    /\ \E k \in 1..Len(wrap.log) : wrap.log[k].kind = "h"

\* A trigger none of whose handlers failed has invoked the handlers of its own
\* snapshot at 0, 1, 2, ... and nothing else, its cursor counts its own
\* invocations, it has not rejected, and when it resolves its result list has
\* the result of every entry of its snapshot, in order.
RunsAlone(op) ==
    (op.api = "trigger" /\ op.fails = <<>>) =>
       /\ \A k \in 1..Len(op.calls) :
             /\ op.calls[k].kind = "h"
             /\ op.calls[k].idx = k - 1
             /\ op.calls[k].hookNumber = op.hookArray[k].hookNumber
       /\ op.curHookNum = Len(op.calls)
       /\ op.pc \in {"runNextHook", "await", "resolved"}
       /\ op.uncaught = {}
       /\ op.pc = "resolved" =>
             op.curHookResults = [k \in 1..Len(op.hookArray) |-> op.hookArray[k].hookNumber]

\* C19: of two triggers in flight at once, each runs as it would alone,
\* whatever the other does and whenever the promises settle, and a step of one
\* (a handler invoked, a promise settled, a failure, an error-cleanup handler
\* invoked) leaves the cursor, the results and the rest of the other untouched.
C19_IndependentTriggers ==
    [][/\ \A o \in OpIds : RunsAlone(ops'[o])
       /\ \A o1, o2 \in OpIds :
             (o1 # o2 /\ ops'[o1] # ops[o1]) => ops'[o2] = ops[o2]]_vars

\* Two triggers of the same name are in flight: the first waits for the promise
\* of its second handler, the second failed at its second handler and waits
\* for the promise of an error-cleanup handler.
C19_Witness ==
    /\ ops["t1"].api = "trigger" /\ ops["t2"].api = "trigger"
    /\ ops["t1"].name = ops["t2"].name
    /\ ops["t1"].pc = "await" /\ ops["t1"].fails = <<>>
    /\ Len(ops["t1"].curHookResults) = 1
    /\ ops["t2"].pc = "await" /\ ops["t2"].fails # <<>>
    /\ \E p \in ops["t2"].inflight : p[1] = "e"

\* C20: whenever trigger resolves, its result list has one element per entry
\* of the snapshot, the k-th being what the k-th handler invoked returned or
\* its promise resolved with (a handler's value is modelled by the number of
\* its entry; the code pushes it whatever it is, undefined included).
C20_OneResultPerEntry ==
    \A o \in OpIds :
       LET op == ops[o]
           invoked == CallsOfKind(op.calls, "h")
       IN (op.api = "trigger" /\ op.pc = "resolved") =>
             /\ Len(op.curHookResults) = Len(op.hookArray)
             /\ Cardinality(invoked) = Len(op.hookArray)
             /\ \A k \in 1..Len(op.curHookResults) :
                   /\ k \in invoked
                   /\ op.curHookResults[k] = op.calls[k].hookNumber

\* C21: with handlers that return plain values or throw and error-cleanup
\* handlers that return plain values, triggerSync invokes the same handlers and
\* error-cleanup handlers as trigger, in the same order, with the same receiver
\* and arguments; it returns the list trigger resolves with and throws the
\* value trigger rejects with.
C21_SyncEquivalentToAsync ==
    LET a == ops["t1"]
        s == ops["t2"]
    IN (a.api = "trigger" /\ s.api = "triggerSync" /\ ~Active(s)) =>
          /\ s.calls = a.calls
          /\ s.pc = "returned" <=> a.pc = "resolved"
          /\ s.pc = "threw" <=> a.pc = "rejected"
          /\ s.pc = "returned" => s.curHookResults = a.curHookResults
          /\ s.pc = "threw" => s.value = a.value

\* triggerSync threw after an unwind over two entries that followed a handler
\* throwing a value the forward run ignored, with arguments for the hooks.
C21_Witness ==
    /\ ops["t1"].pc = "rejected"
    /\ ops["t2"].pc = "threw"
    /\ ops["t2"].args = <<"a1", "a2">>
    /\ Len(ops["t2"].fails) = 2
    /\ Cardinality(CallsOfKind(ops["t2"].calls, "e")) = 2

\* C22: triggerSync does not wait for a deferred value returned by a handler
\* or an error-cleanup handler: the step that receives it goes on to the next
\* runNextHook or runNextErrorHook, or ends the call.  A rejection of the
\* deferred value comes after the call is over, changes neither its outcome
\* nor its invocations, and is raised as an uncaught exception.
C22_DeferredNotAwaited ==
    [][\A o \in OpIds :
          LET op == ops[o]
              after == ops'[o]
          IN (op.engine = "sync" /\ after.engine = "sync") =>
                /\ after.pc # "await"
                /\ (after.inflight \ op.inflight # {} /\ Active(op)) =>
                       after.pc \in {"runNextHook", "runNextErrorHook", "returned", "threw"}
                /\ \A r \in after.rejections \ op.rejections :
                       /\ ~Active(op)
                       /\ after.pc = op.pc
                       /\ after.value = op.value
                       /\ after.calls = op.calls
                       /\ after.curHookResults = op.curHookResults
                       /\ after.curHookNum = op.curHookNum
                       /\ r[2] \in after.uncaught]_vars

\* triggerSync returned the result of the second handler only, after the first
\* handler returned a deferred value that later rejected with a falsy value
\* and the second handler ran before that.
C22_Witness ==
    LET op == ops["t1"]
    IN /\ op.api = "triggerSync"
       /\ op.pc = "returned"
       /\ Len(op.hookArray) = 2
       /\ Len(op.curHookResults) = 1
       /\ op.curHookResults[1] = op.hookArray[2].hookNumber
       /\ \E r \in op.rejections : r[1][1] = "h" /\ r[1][2] = 0 /\ r[2] = "0"
       /\ "0" \in op.uncaught

\* The value of the failure that started the unwind of a trigger: the last
\* failure of a handler.
FailureValue(op) == op.fails[Len(op.fails)].val

\* C23: every handler of a trigger is invoked with the trigger's arguments, and
\* every error-cleanup handler invoked in the unwind of a failed trigger is
\* invoked with the failure value followed by the trigger's arguments.
C23_ArgumentsPassedThrough ==
    LET op == ops["t1"]
    IN op.api \in {"trigger", "mixin.trigger"} =>
          \A k \in 1..Len(op.calls) :
             /\ op.calls[k].kind = "h" => op.calls[k].args = op.args
             /\ op.calls[k].kind = "e" =>
                    /\ op.fails # <<>>
                    /\ op.calls[k].args = <<FailureValue(op)>> \o op.args

\* C24: every handler and error-cleanup handler of a call is invoked with the
\* receiver of the call: the receiver the caller passed first in the
\* constructor API, and the hook container when the caller passed none, in
\* both APIs.
C24_ReceiverIsContainer ==
    LET op == ops["t1"]
    IN \A k \in 1..Len(op.calls) :
          op.calls[k].thisPtr = IF op.api \in MixinApis THEN Container ELSE op.thisPtr

\* The entries of a HookSet, whatever their order.
Entries(nameHooks) == {nameHooks.hooks[i] : i \in 1..Len(nameHooks.hooks)}

\* C25: with handlers that are functions of their arguments, every later
\* trigger of the name with the same arguments resolves with the result list
\* of the first one (and rejects when the first one rejects), and the first
\* trigger changes nothing of the registry but the order of the entries of
\* the name, which it leaves sorted.
C25_RepeatedTriggersAgree ==
    /\ [](\A o \in {"t2"} :
             (ops[o].api = "trigger" /\ ~Active(ops[o])) =>
                /\ ops[o].pc = ops["t1"].pc
                /\ ops[o].curHookResults = ops["t1"].curHookResults
                /\ ops[o].value = ops["t1"].value)
    /\ [][(ops["t1"].pc = "idle" /\ ops'["t1"].pc # "idle") =>
             /\ DOMAIN _hooks' = DOMAIN _hooks
             /\ \A n \in DOMAIN _hooks :
                   /\ Entries(_hooks'[n]) = Entries(_hooks[n])
                   /\ Len(_hooks'[n].hooks) = Len(_hooks[n].hooks)
                   /\ _hooks'[n].hookCtr = _hooks[n].hookCtr
                   /\ n # ops'["t1"].name => _hooks'[n] = _hooks[n]
                   /\ \A i, j \in 1..Len(_hooks'[n].hooks) :
                         (n = ops'["t1"].name /\ i < j) =>
                            CompareHooks(_hooks'[n].hooks[i], _hooks'[n].hooks[j]) < 0]_vars

\* A later trigger resolved with the list of the first one, whose sort moved
\* an entry registered later in front of one registered earlier.
C25_Witness ==
    /\ ops["t1"].pc = "resolved"
    /\ ops["t2"].pc = "resolved"
    /\ Len(ops["t2"].curHookResults) = 3
    /\ ops["t2"].curHookResults[1] > ops["t2"].curHookResults[2]
    /\ ops["t2"].curHookResults = ops["t1"].curHookResults

\* C26: trigger and triggerSync of a name without a HookSet end at once with
\* an empty result list, trigger resolved and triggerSync returned, without
\* any invocation or failure; only registration creates a HookSet.
C26_UnknownNameIsEmpty ==
    LET op == ops["t1"]
    IN /\ DOMAIN _hooks \subseteq {"X"}
       /\ ( /\ op.api \in {"trigger", "triggerSync", "mixin.trigger", "mixin.triggerSync"}
            /\ op.name \notin DOMAIN _hooks ) =>
               /\ op.pc = IF op.engine = "async" THEN "resolved" ELSE "returned"
               /\ op.curHookResults = <<>>
               /\ op.calls = <<>>
               /\ op.fails = <<>>
               /\ op.inflight = {}
               /\ op.uncaught = {}

\* triggerSync of a name without a HookSet returned while another name has
\* hooks.
C26_Witness ==
    /\ ops["t1"].api = "triggerSync"
    /\ ops["t1"].name = "post-X"
    /\ ops["t1"].pc = "returned"
    /\ ops["t1"].args = <<"a1", "a2">>
    /\ DOMAIN _hooks = {"X"}

\* The results of the callbacks called without error, in the order of the calls.
RECURSIVE CallbackResultsOf(_)
CallbackResultsOf(callbacks) ==
    IF callbacks = <<>> THEN <<>>
    ELSE LET c == callbacks[Len(callbacks)]
             before == CallbackResultsOf(SubSeq(callbacks, 1, Len(callbacks) - 1))
         IN IF Truthy(c.error) THEN before ELSE Append(before, c.result)

IsCallbackResult(v) == v \in CallbackResults

CallbackDue(op) ==
    op.api \in {"triggerAsync", "triggerErrorAsync"} /\ op.completions = <<>>

\* The callback is called at most once, after the sequence and its unwind have
\* finished, with (null, results) or with the error of the rejection by
\* triggerAsync, and without arguments by triggerErrorAsync.
CalledBackCorrectly(op) ==
    /\ Len(op.completions) <= 1
    /\ op.completions # <<>> =>
          /\ op.pc \in {"resolved", "rejected"}
          /\ op.inflight = {}
          /\ op.pc = "rejected" =>
                 op.completions[1] = [error |-> op.value, result |-> PlainValue(Undefined)]
          /\ (op.pc = "resolved" /\ op.api = "triggerAsync") =>
                 op.completions[1] =
                    [error |-> "null", result |-> ArrayValue(op.curHookResults)]
          /\ op.api = "triggerErrorAsync" =>
                 /\ op.pc = "resolved"
                 /\ op.completions[1] = [error |-> Undefined, result |-> PlainValue(Undefined)]
                 /\ \A i \in 0..(Len(op.hookArray) - 1) :
                        op.hookArray[i + 1].errorHandler =>
                           \E k \in 1..Len(op.calls) :
                              op.calls[k].kind = "e" /\ op.calls[k].idx = i

\* C28, as claimed: every call of triggerAsync and triggerErrorAsync calls its
\* callback exactly once, after the sequence has finished, with the outcome of
\* the trigger.
C28_CallbackExactlyOnce ==
    /\ [](\A o \in OpIds : CalledBackCorrectly(ops[o]))
    /\ \A o \in OpIds : CallbackDue(ops[o]) ~> (ops[o].completions # <<>>)

\* C28, amended: the callback is called exactly once unless an error-cleanup
\* handler invoked by the call throws or its promise rejects, and then never.
C28_CallbackOnceUnlessCleanupFails ==
    /\ [](\A o \in OpIds : CalledBackCorrectly(ops[o]))
    /\ [](\A o \in OpIds : CleanupFailed(o) => ops[o].completions = <<>>)
    /\ \A o \in OpIds :
          CallbackDue(ops[o]) ~> (ops[o].completions # <<>> \/ CleanupFailed(o))

\* The callback of triggerAsync was called with the error of a failed handler
\* after the cleanup for the entry before it.
C28_Witness ==
    LET op == ops["t1"]
    IN /\ op.api = "triggerAsync"
       /\ op.pc = "rejected"
       /\ Len(op.completions) = 1
       /\ op.completions[1].error = "E1"
       /\ Cardinality(CallsOfKind(op.calls, "e")) = 1

\* C29: in the callback API a call of triggerSync or triggerErrorSync on a name
\* that has a hook registered with hookAsync throws without invoking a handler
\* or an error handler, without calling a callback and without changing the
\* registry; the call is over.
C29_SyncRefusedWithAsyncHooks ==
    [][\A o \in OpIds :
          ( /\ Free(ops[o])
            /\ ops'[o] # ops[o]
            /\ ops'[o].api \in {"v1.triggerSync", "v1.triggerErrorSync"}
            /\ V1AsyncRegistered(_hooks, ops'[o].name) ) =>
               /\ ops'[o].pc = "threw"
               /\ ops'[o].value = CannotUseTriggerSync
               /\ ops'[o].calls = <<>>
               /\ ops'[o].completions = <<>>
               /\ ops'[o].inflight = {}
               /\ _hooks' = _hooks]_vars

\* triggerErrorSync was refused on a name whose HookSet, with a hook of
\* hookSync and one of hookAsync, is still unsorted.
C29_Witness ==
    /\ ops["t1"].api = "v1.triggerErrorSync"
    /\ ops["t1"].pc = "threw"
    /\ ops["t1"].value = CannotUseTriggerSync
    /\ "X" \in DOMAIN _hooks
    /\ Len(_hooks["X"].hooks) = 2
    /\ ~_hooks["X"].sorted
    /\ _hooks["X"].hooks[1].async
    /\ ~_hooks["X"].hooks[2].async

\* The first failure of a handler that the forward run does not ignore.
FirstTruthyFail(fails) ==
    fails[CHOOSE k \in 1..Len(fails) :
             /\ Truthy(fails[k].val)
             /\ \A j \in 1..(k - 1) : ~Truthy(fails[j].val)]

\* C30: in the callback API, when a hook fails during trigger (it throws, or
\* calls next with an error) and no error handler throws, the error handlers
\* of the entries before it, registered with hookSync or hookAsync, are
\* invoked in descending order with the error, and the callback is then called
\* once, with that error.
C30_V1FailureUnwinds ==
    LET op == ops["t1"]
    IN ( /\ op.api = "v1.trigger"
         /\ \E k \in 1..Len(op.fails) : Truthy(op.fails[k].val)
         /\ op.unwindFailures \cap FailValues = {} ) =>
            LET f == FirstTruthyFail(op.fails)
                hookArray == V1HookArray(op, _hooks)
                cleanups == CallsOfKind(op.calls, "e")
            IN /\ CleanupDescending(op.calls)
               /\ \A k \in cleanups :
                     /\ op.calls[k].idx < f.idx
                     /\ op.calls[k].error = f.val
               /\ op.pc # "threw"
               /\ ~Active(op) =>
                     /\ op.pc = "returned"
                     /\ {op.calls[k].idx : k \in cleanups} =
                           {j \in 0..(f.idx - 1) : hookArray[j + 1].errorHandler}
                     /\ Len(op.completions) = 1
                     /\ op.completions[1].error = f.val

\* C31: a triggerWrap of the constructor API that is given a receiver runs,
\* taking its hooks from the container, and every handler, error-cleanup
\* handler and the body is invoked with that receiver as this.
C31_WrapReceiver ==
    wrap.api = "triggerWrap" =>
        /\ wrap.pc # "threw"
        /\ \A k \in 1..Len(WrapTrace("t1")) :
              WrapTrace("t1")[k].kind \in {"h", "e", "b"} =>
                  WrapTrace("t1")[k].thisPtr = wrap.thisPtr

\* C32: the error-cleanup handlers invoked on behalf of a triggerWrap, those
\* of its cleanup of X and pre-X included, are invoked with the error followed
\* by the hook arguments given to triggerWrap.
C32_CleanupArguments ==
    wrap.api \in {"triggerWrap", "mixin.triggerWrap"} =>
        \A k \in 1..Len(WrapTrace("t1")) :
            WrapTrace("t1")[k].kind = "e" =>
                WrapTrace("t1")[k].args = <<WrapTrace("t1")[k].error>> \o wrap.args

\* A sequence of entries in (priority ascending, hookNumber ascending) order.
InKeyOrder(hooksArray) ==
    \A i, j \in 1..Len(hooksArray) : i < j => KeyLess(hooksArray[i], hooksArray[j])

\* C33: a registered set whose sorted flag is true has its entries in
\* (priority ascending, hookNumber ascending) order, and the snapshot of every
\* trigger, triggerSync and triggerError is in that order, whatever the
\* interleaving of registrations and triggers.
C33_SortedFlagMeansSorted ==
    /\ \A n \in DOMAIN _hooks : _hooks[n].sorted => InKeyOrder(_hooks[n].hooks)
    /\ \A o \in OpIds :
          ops[o].api \in {"trigger", "triggerSync", "triggerError"} =>
              InKeyOrder(ops[o].hookArray)

\* A set registered out of key order has been sorted for a trigger that is
\* running on a snapshot of it, and a hook has been registered since.
C33_Witness ==
    /\ "X" \in DOMAIN _hooks
    /\ ~_hooks["X"].sorted
    /\ Len(_hooks["X"].hooks) = 3
    /\ ops["t1"].api = "triggerSync"
    /\ Active(ops["t1"])
    /\ Len(ops["t1"].hookArray) = 2
    /\ ops["t1"].hookArray[1].hookNumber > ops["t1"].hookArray[2].hookNumber

\* The hookNumbers of the entries of a HookSet.
HookNumbers(nameHooks) == {e.hookNumber : e \in Entries(nameHooks)}

\* C34: in every HookSet the hookNumbers of the entries are pairwise distinct
\* and the counter equals the number of entries; and in every step every entry
\* stays in its set unmodified, wherever sorting moves it, and an entry that
\* is added has a hookNumber above those of all entries registered before it.
C34_HookNumbers ==
    /\ [](\A n \in DOMAIN _hooks :
             /\ Cardinality(HookNumbers(_hooks[n])) = Len(_hooks[n].hooks)
             /\ _hooks[n].hookCtr = Len(_hooks[n].hooks))
    /\ [][/\ DOMAIN _hooks \subseteq DOMAIN _hooks'
          /\ \A n \in DOMAIN _hooks :
                /\ Entries(_hooks[n]) \subseteq Entries(_hooks'[n])
                /\ \A e \in Entries(_hooks'[n]) \ Entries(_hooks[n]) :
                      \A k \in HookNumbers(_hooks[n]) : e.hookNumber > k]_vars

\* A set of three entries that a sort has permuted.
C34_Witness ==
    /\ "X" \in DOMAIN _hooks
    /\ _hooks["X"].sorted
    /\ Len(_hooks["X"].hooks) = 3
    /\ _hooks["X"].hooks[1].hookNumber = 2
    /\ _hooks["X"].hooks[2].hookNumber = 0

\* The HookSet of a name, or nothing when the name has none.
HookSetOf(h, n) == IF n \in DOMAIN h THEN <<h[n]>> ELSE <<>>

\* C35: a registration changes the HookSet of one name only and invokes
\* nothing; a registration refused with 'Too many arguments' leaves the whole
\* registry unchanged and invokes nothing; and a step of a trigger of a name
\* leaves the HookSet of every other name unchanged.
C35_RegistrationFrame ==
    [][/\ TotalHooks' > TotalHooks =>
             /\ ops' = ops
             /\ DOMAIN _hooks \subseteq DOMAIN _hooks'
             /\ \E n \in DOMAIN _hooks' :
                   \A m \in Names \ {n} : HookSetOf(_hooks', m) = HookSetOf(_hooks, m)
       /\ \A o \in OpIds :
             ops'[o] # ops[o] =>
                IF ops'[o].api = "hook"
                THEN /\ ops'[o].value = TooManyArguments
                     /\ _hooks' = _hooks
                     /\ \A q \in OpIds \ {o} : ops'[q] = ops[q]
                ELSE \A m \in Names \ {ops'[o].name} :
                        HookSetOf(_hooks', m) = HookSetOf(_hooks, m)]_vars

\* After a refused registration, a trigger of one name has invoked a handler
\* while the set of another name, with two entries, is still unsorted.
C35_Witness ==
    /\ ops["t2"].api = "hook"
    /\ ops["t1"].api = "trigger"
    /\ ops["t1"].name = "X"
    /\ Len(ops["t1"].calls) >= 1
    /\ "pre-X" \in DOMAIN _hooks
    /\ Len(_hooks["pre-X"].hooks) = 2
    /\ ~_hooks["pre-X"].sorted

\* The promise of triggerWrap has settled.
WrapSettled == wrap.pc \in {"resolved", "rejected"}

\* An error-cleanup handler invoked by the cleanup of the wrap has returned a
\* promise that is still pending; the error-cleanup handlers of the entries
\* below it are not started before it resolves.
WrapCleanupPending ==
    /\ wrap.stage \in {"cleanupMain", "cleanupPre"}
    /\ ops["t1"].pc = "await"

\* C36: the promise returned by triggerWrap is not settled while an
\* error-cleanup handler run by the wrap's cleanup is pending.
C36_SettlesAfterCleanup == WrapSettled => ~WrapCleanupPending

\* The forward handler of the entry of an error-cleanup call was invoked
\* earlier in the trace and did not fail.
RanBefore(trace, fails, k) ==
    \E j \in 1..(k - 1) :
        /\ trace[j].kind = "h"
        /\ trace[j].name = trace[k].name
        /\ trace[j].hookNumber = trace[k].hookNumber
        /\ \A f \in FailsOf(fails, trace[k].name) : fails[f].idx # trace[j].idx

\* C37: in a triggerWrap, an error-cleanup handler is invoked only for an
\* entry whose forward handler was invoked and succeeded earlier in the wrap,
\* and at most once per entry, whatever is registered while the wrap runs.
C37_CleanupOnlyForRunEntries ==
    LET trace == WrapTrace("t1")
        fails == WrapFails("t1")
        cleanups == {k \in 1..Len(trace) : trace[k].kind = "e"}
    IN wrap.api \in {"triggerWrap", "mixin.triggerWrap"} =>
          /\ \A k \in cleanups : RanBefore(trace, fails, k)
          /\ \A k, l \in cleanups :
                (trace[k].name = trace[l].name /\ trace[k].hookNumber = trace[l].hookNumber)
                    => k = l

\* No entry has its handler, or its error handler, invoked twice in a log.
InvokedAtMostOnce(calls) ==
    \A k, l \in 1..Len(calls) :
        (calls[k].kind = calls[l].kind /\ calls[k].hookNumber = calls[l].hookNumber)
            => k = l

\* C38: a trigger of the callback API, called directly or by triggerSync,
\* calls its callback at most once and, when the call is over, exactly once:
\* without an error when no handler failed, with the error of the first
\* handler that failed otherwise; and it invokes every handler and every error
\* handler at most once.
C38_V1CallbackOnce ==
    LET op == ops["t1"]
    IN (op.api \in {"v1.trigger", "v1.triggerSync"} /\ op.value # CannotUseTriggerSync) =>
          /\ Len(op.completions) <= 1
          /\ InvokedAtMostOnce(op.calls)
          /\ op.pc \in {"returned", "threw"} =>
                /\ Len(op.completions) = 1
                /\ op.completions[1].error =
                      IF \E k \in 1..Len(op.fails) : Truthy(op.fails[k].val)
                      THEN FirstTruthyFail(op.fails).val
                      ELSE Undefined

====
